---- MODULE Spec2Model ----
(***************************************************************************)
(* The performance gate of optimization-scripts/performance-check.js:      *)
(* checkPerformance reads the Lighthouse report, evaluates four category   *)
(* scores and six metrics against THRESHOLDS, appends a record to the      *)
(* capped history log, runs the bundle-size sub-check, writes the static   *)
(* report document and exits with status 0 or 1.                           *)
(*                                                                         *)
(* Numbers.  The script works on IEEE doubles; the model works on          *)
(* integers:                                                               *)
(*   - a fractional category score s is held in thousandths (895 is        *)
(*     0.895); ScoreSet values are whole percentages;                      *)
(*   - a metric value and a metric threshold are held in hundredths of     *)
(*     the unit (180000 is 1800 ms, 10 is a layout shift of 0.1); the      *)
(*     value stored in a results record is Math.round(value), in whole     *)
(*     units.                                                              *)
(* JavaScript's non-numbers are negative sentinels, which no score or      *)
(* metric of the modelled inputs takes.                                    *)
(***************************************************************************)
EXTENDS Integers, Sequences, FiniteSets, TLC

\* ------------------------------------------------------------- bounds
\* Number of sequential invocations of the script in one behaviour.
MaxRuns == 2

\* ------------------------------------------------------------- values
\* lhr.categories[c] / lhr.audits[a] is not in the report (reading a
\* property of it throws a TypeError).
Absent == -1
\* The entry is there but has no score / numericValue: JavaScript undefined.
Undefined == -2
\* Math.round(undefined * 100) and Math.round(undefined).
NaN == -3
\* JSON.stringify writes NaN as null.
Null == -4

\* Object.entries(scores): the keys of the scores literal, in order.
Categories == <<"performance", "accessibility", "best-practices", "seo">>

\* Object.entries(metrics): the keys of the metrics literal, in order.
MetricNames ==
    <<"first-contentful-paint", "largest-contentful-paint", "first-input-delay",
      "cumulative-layout-shift", "speed-index", "interactive">>

CategorySet == {Categories[i] : i \in 1..Len(Categories)}
MetricSet == {MetricNames[i] : i \in 1..Len(MetricNames)}

\* The audit a metric is read from: first-input-delay comes from
\* max-potential-fid, every other metric from the audit of its own name.
AuditOf(metric) ==
    IF metric = "first-input-delay" THEN "max-potential-fid" ELSE metric

AuditSet == {AuditOf(m) : m \in MetricSet}

\* THRESHOLDS: whole percentages for the categories, hundredths of the
\* unit for the metrics (1800 ms, 2500 ms, 100 ms, 0.1, 3000 ms, 3500 ms).
THRESHOLDS ==
    [k \in CategorySet \cup MetricSet |->
        CASE k = "performance"              -> 90
          [] k = "accessibility"            -> 90
          [] k = "best-practices"           -> 90
          [] k = "seo"                      -> 90
          [] k = "first-contentful-paint"   -> 1800 * 100
          [] k = "largest-contentful-paint" -> 2500 * 100
          [] k = "first-input-delay"        -> 100 * 100
          [] k = "cumulative-layout-shift"  -> 10
          [] k = "speed-index"              -> 3000 * 100
          [] k = "interactive"              -> 3500 * 100]

\* if (history.length > 50) history = history.slice(-50)
HistoryCap == 50

\* const maxBundleSize = 250 * 1024
maxBundleSize == 250 * 1024

\* ------------------------------------------------------------- state
VARIABLES
    report,        \* ./reports/lighthouse-ci.json
    historyFile,   \* ./reports/performance-history.json
    htmlReport,    \* ./reports/performance-report.html
    reportsDir,    \* ./reports exists
    buildDir,      \* ./dist
    env,           \* process.env
    faults,        \* the file-system calls that throw
    clock,         \* new Date()
    runs,          \* invocations started so far
    thresholds,    \* the threshold table the script is built with
    previous,      \* what the invocation before this one computed
    pc,            \* where the running invocation is
    scores,        \* const scores
    metrics,       \* const metrics
    passed,        \* let passed
    results,       \* const results
    marks,         \* the pass markers printed, one per evaluated item
    historyData,   \* the record built by savePerformanceHistory (<<>> before)
    logRead,       \* the list savePerformanceHistory started from
    histAttempts,  \* calls of savePerformanceHistory in this invocation
    bundle,        \* what checkBundleSize printed
    console,       \* the steps reported on the console, in order
    exits,         \* the statuses process.exit was called with
    \* optimization-scripts/optimize-images.js
    tools,         \* the command-line tools `which` finds
    inputDir,      \* ./src/assets/images
    outputDir,     \* ./public/images
    toolOutcome,   \* per input file: what mkdir and the tools will do
    imagePc,       \* where optimizeImages is
    imageFiles,    \* const imageFiles
    cursor,        \* position of the for-of loop in imageFiles
    imageResults,  \* const results of optimizeImages
    invoked,       \* the tool invocations made so far
    imageConsole,  \* the lines optimize-images.js printed, in order
    imageExits,    \* the statuses optimize-images.js called process.exit with
    \* two invocations of performance-check.js at the same time
    workers,       \* per invocation: where it is in savePerformanceHistory
    writers        \* the invocations that wrote the history file, in order

\* ------------------------------------------------------------- numbers
\* The thousandths k in 0..1000 ending in 5 for which the double k/1000
\* times 100 falls just below the half (0.285 * 100 = 28.499999999999996),
\* so that Math.round goes down.
FloatBelowHalf == {145, 285, 565, 575}

\* Mutant: the product is truncated instead of rounded.
RoundScoreTruncated(k) ==
    IF k = Undefined THEN NaN ELSE k \div 10

\* Math.round(score * 100) for a score of k thousandths, 0 <= k <= 1000:
\* to the nearest integer, a half going up, on the double product.
RoundScore(k) ==
    IF k = Undefined THEN NaN
    ELSE IF k \in FloatBelowHalf THEN k \div 10
    ELSE (k + 5) \div 10

\* Math.round(value) for a metric of h hundredths, h >= 0.
RoundMetric(h) ==
    IF h = Undefined THEN NaN ELSE (h + 50) \div 100

\* JavaScript's relational operators: every comparison with NaN or
\* undefined is false.
IsNumber(x) == x >= 0
JsGE(a, b) == IsNumber(a) /\ a >= b
JsLT(a, b) == IsNumber(a) /\ a < b
JsLE(a, b) == IsNumber(a) /\ a <= b
JsGT(a, b) == IsNumber(a) /\ a > b

\* ------------------------------------------------------------- the report
\* The Lighthouse report on disk.  kind:
\*   "missing"       the file does not exist
\*   "malformed"     JSON.parse throws
\*   "nolhr"         parsed, no lhr object
\*   "nocategories"  lhr has no categories object
\*   "noaudits"      lhr has no audits object
\*   "ok"            lhr.categories and lhr.audits are objects
\* cat[c] is the score of category c in thousandths, Undefined or Absent;
\* aud[a] is the numericValue of audit a in hundredths, Undefined or Absent.
MkReport(kind, cat, aud) == [kind |-> kind, cat |-> cat, aud |-> aud]

\* Extraction (lines 34-52) throws: the parse fails, or a property is read
\* of an object that is not there.
ExtractThrows(r) ==
    \/ r.kind # "ok"
    \/ \E c \in CategorySet : r.cat[c] = Absent
    \/ \E a \in AuditSet : r.aud[a] = Absent

\* const scores = {...}
ExtractScores(r) == [c \in CategorySet |-> RoundScore(r.cat[c])]

\* const metrics = {...}
ExtractMetrics(r) == [m \in MetricSet |-> r.aud[AuditOf(m)]]

\* ------------------------------------------------------------- evaluation
\* if (!threshold) return;  The table in force is the variable thresholds
\* (THRESHOLDS itself in every run of the script as written).
HasThreshold(metric) == metric \in DOMAIN thresholds /\ thresholds[metric] # 0

\* Mutant: the pass boundary of a score made exclusive.
ScoreStatusExclusive(score, threshold) ==
    IF JsLE(score, threshold) THEN "failed" ELSE "passed"

\* The record pushed for a category score.
ScoreStatus(score, threshold) ==
    IF JsLT(score, threshold) THEN "failed" ELSE "passed"

ScoreResult(category, score) ==
    [type |-> "score", category |-> category, value |-> score,
     threshold |-> thresholds[category],
     status |-> ScoreStatus(score, thresholds[category])]

\* Mutant: the pass boundary of a metric made exclusive.
MetricStatusExclusive(value, threshold) ==
    IF JsGE(value, threshold) THEN "failed" ELSE "passed"

\* The record pushed for a metric.
MetricStatus(value, threshold) ==
    IF JsGT(value, threshold) THEN "failed" ELSE "passed"

MetricResult(metric, value) ==
    [type |-> "metric", category |-> metric, value |-> RoundMetric(value),
     threshold |-> thresholds[metric],
     status |-> MetricStatus(value, thresholds[metric])]

\* The console marker of an item: TRUE is the check mark.
ScoreMark(score, threshold) == JsGE(score, threshold)
MetricMark(value, threshold) == JsLE(value, threshold)

EvaluatedMetrics == SelectSeq(MetricNames, HasThreshold)

\* The records the scores loop pushes, and those the metrics loop pushes.
ScoreResults(sc) ==
    [i \in 1..Len(Categories) |-> ScoreResult(Categories[i], sc[Categories[i]])]

MetricResults(me) ==
    [i \in 1..Len(EvaluatedMetrics) |->
        MetricResult(EvaluatedMetrics[i], me[EvaluatedMetrics[i]])]

\* Mutant: evaluation stops at the first failed item.
RECURSIVE UpToFirstFailure(_)
UpToFirstFailure(recs) ==
    IF recs = <<>> THEN <<>>
    ELSE IF Head(recs).status = "failed" THEN <<Head(recs)>>
    ELSE <<Head(recs)>> \o UpToFirstFailure(Tail(recs))

EvalResultsShortCircuit(sc, me) ==
    UpToFirstFailure(ScoreResults(sc) \o MetricResults(me))

\* Mutant: the failed items are listed first.
IsFailed(rec) == rec.status = "failed"
IsPassed(rec) == rec.status = "passed"
EvalResultsFailedFirst(sc, me) ==
    SelectSeq(ScoreResults(sc) \o MetricResults(me), IsFailed)
        \o SelectSeq(ScoreResults(sc) \o MetricResults(me), IsPassed)

\* results after both forEach loops.
EvalResults(sc, me) == ScoreResults(sc) \o MetricResults(me)

\* The console markers, in the order printed.
EvalMarks(sc, me) ==
    [i \in 1..Len(Categories) |->
        [category |-> Categories[i],
         mark |-> ScoreMark(sc[Categories[i]], thresholds[Categories[i]])]]
    \o [i \in 1..Len(EvaluatedMetrics) |->
        [category |-> EvaluatedMetrics[i],
         mark |-> MetricMark(me[EvaluatedMetrics[i]],
                             thresholds[EvaluatedMetrics[i]])]]

\* Mutant: the metrics loop never clears the flag.
EvalPassedScoresOnly(sc, me) ==
    \A c \in CategorySet : ~JsLT(sc[c], thresholds[c])

\* Mutant: a metric without a threshold fails the gate.
EvalPassedStrict(sc, me) ==
    /\ \A c \in CategorySet : ~JsLT(sc[c], thresholds[c])
    /\ \A i \in 1..Len(EvaluatedMetrics) :
          ~JsGT(me[EvaluatedMetrics[i]], thresholds[EvaluatedMetrics[i]])
    /\ \A m \in MetricSet : HasThreshold(m)

\* passed after both forEach loops: true unless some iteration set it false.
EvalPassed(sc, me) ==
    /\ \A c \in CategorySet : ~JsLT(sc[c], thresholds[c])
    /\ \A i \in 1..Len(EvaluatedMetrics) :
          ~JsGT(me[EvaluatedMetrics[i]], thresholds[EvaluatedMetrics[i]])

\* ------------------------------------------------------------- history
\* process.env.X || 'local': an unset variable and an empty one both give
\* 'local'.  An unset variable is the string "<unset>".
Unset == "<unset>"

\* Mutant: only an unset variable falls back to 'local'.
EnvOrLocalUnsetOnly(v) == IF v = Unset THEN "local" ELSE v

EnvOrLocal(v) == IF v = Unset \/ v = "" THEN "local" ELSE v

\* historyData of savePerformanceHistory.
MkHistoryData(now, e, sc, me) ==
    [timestamp |-> now, commit |-> EnvOrLocal(e.GITHUB_SHA),
     branch |-> EnvOrLocal(e.GITHUB_REF_NAME), scores |-> sc, metrics |-> me]

\* JSON.stringify of a history record, read back: a NaN score is written
\* as null, a metric that is undefined is left out of the object.
ToJSON(rec) ==
    [rec EXCEPT
        !.scores = [c \in DOMAIN rec.scores |->
                       IF rec.scores[c] = NaN THEN Null ELSE rec.scores[c]],
        !.metrics = [m \in {x \in DOMAIN rec.metrics : rec.metrics[x] # Undefined}
                       |-> rec.metrics[m]]]

\* Mutant: slice(0, n), which keeps the oldest entries.
SliceFirst(log, n) ==
    IF Len(log) <= n THEN log ELSE SubSeq(log, 1, n)

\* history.slice(-n): the last n elements (all of them when there are
\* fewer).
SliceLast(log, n) ==
    IF Len(log) <= n THEN log ELSE SubSeq(log, Len(log) - n + 1, Len(log))

\* history.push(historyData); if (history.length > 50) history.slice(-50)
AppendCapped(log, rec) ==
    LET pushed == Append(log, rec)
    IN  IF Len(pushed) > HistoryCap THEN SliceLast(pushed, HistoryCap) ELSE pushed

\* The history file on disk.  state:
\*   "absent"     the file does not exist
\*   "malformed"  JSON.parse throws
\*   "nonlist"    valid JSON that is not an array (history.push throws)
\*   "list"       an array, its elements in entries
MkHistoryFile(state, entries) == [state |-> state, entries |-> entries]

\* ------------------------------------------------------------- bundle size
\* The build directory.  state: "absent", "unreadable" (readdirSync or
\* statSync throws) or "dir", with the listing readdirSync(buildDir,
\* {recursive: true}) returns: the entries of a directory, sub-directories
\* included, come before the entries of its sub-directories.
MkBuildDir(state, files) == [state |-> state, files |-> files]

\* file.endsWith('.js') || file.endsWith('.css')
IsBundleFile(file) == file.ext = "js" \/ file.ext = "css"

\* .sort((a, b) => b.size - a.size): descending by size, stable.
RECURSIVE InsertBySize(_, _)
InsertBySize(sorted, f) ==
    IF sorted = <<>> THEN <<f>>
    ELSE IF Head(sorted).size >= f.size
         THEN <<Head(sorted)>> \o InsertBySize(Tail(sorted), f)
         ELSE <<f>> \o sorted

RECURSIVE SortBySizeDesc(_)
SortBySizeDesc(files) ==
    IF files = <<>> THEN <<>>
    ELSE InsertBySize(SortBySizeDesc(SubSeq(files, 1, Len(files) - 1)),
                      files[Len(files)])

\* files.reduce((sum, file) => sum + file.size, 0)
RECURSIVE TotalSize(_)
TotalSize(files) ==
    IF files = <<>> THEN 0 ELSE Head(files).size + TotalSize(Tail(files))

\* What checkBundleSize prints: per file its mark, then the total's mark.
NoBundle == [state |-> "none", files |-> <<>>, totalSize |-> 0, totalOk |-> TRUE]

\* Mutant: a file exactly at the limit is marked as over it.
BundleAnalysisStrict(dir) ==
    LET files == SortBySizeDesc(SelectSeq(dir.files, IsBundleFile))
    IN  [state |-> "analyzed",
         files |-> [i \in 1..Len(files) |->
                      [name |-> files[i].name, size |-> files[i].size,
                       ok |-> files[i].size < maxBundleSize]],
         totalSize |-> TotalSize(files),
         totalOk |-> TotalSize(files) < maxBundleSize * 3]

BundleAnalysis(dir) ==
    LET files == SortBySizeDesc(SelectSeq(dir.files, IsBundleFile))
    IN  [state |-> "analyzed",
         files |-> [i \in 1..Len(files) |->
                      [name |-> files[i].name, size |-> files[i].size,
                       ok |-> files[i].size <= maxBundleSize]],
         totalSize |-> TotalSize(files),
         totalOk |-> TotalSize(files) <= maxBundleSize * 3]

CheckBundle(dir) ==
    IF dir.state = "absent" THEN [NoBundle EXCEPT !.state = "skipped"]
    ELSE IF dir.state = "unreadable" THEN [NoBundle EXCEPT !.state = "error"]
    ELSE BundleAnalysis(dir)

\* ------------------------------------------------------------- inputs
\* The metric read from an audit.
MetricOfAudit(a) == CHOOSE m \in MetricSet : AuditOf(m) = a

\* A report that passes every check: scores of 0.95, metrics at half their
\* thresholds.
BaseCat == [c \in CategorySet |-> 950]
BaseAud == [a \in AuditSet |-> THRESHOLDS[MetricOfAudit(a)] \div 2]

\* Fractional scores (thousandths) an entry is given: around the threshold
\* (0.894, 0.895, 0.899, 0.9), the ends, a product that falls below the
\* half (0.285), and no score at all.
ScoreInputs == {0, 285, 894, 895, 899, 900, 1000, Undefined}

\* Values (hundredths) an audit is given: around its threshold t (t - 0.01,
\* t, t + 0.01, t + 0.5), 1.5 t (a layout shift of 0.15), 0, and none.
MetricInputs(t) == {0, t - 1, t, t + 1, t + 50, (t * 3) \div 2, Undefined}

StructuralReports ==
    {MkReport(k, BaseCat, BaseAud) :
        k \in {"missing", "malformed", "nolhr", "nocategories", "noaudits"}}

OneCategoryReports ==
    {MkReport("ok", [BaseCat EXCEPT ![c] = v], BaseAud) :
        c \in CategorySet, v \in ScoreInputs \cup {Absent}}

OneAuditReports ==
    UNION {{MkReport("ok", BaseCat, [BaseAud EXCEPT ![a] = v]) :
                v \in MetricInputs(THRESHOLDS[MetricOfAudit(a)]) \cup {Absent}} :
           a \in AuditSet}

\* Every combination of scores that round to 89 (0.894) and to 90 (0.895,
\* 0.9), and of boundary (t) and failing (t + 0.01) metrics.
CategoryProductReports ==
    {MkReport("ok", cat, BaseAud) : cat \in [CategorySet -> {894, 895, 900}]}

BoundaryAud(f) == [a \in AuditSet |-> THRESHOLDS[MetricOfAudit(a)] + f[a]]

MetricProductReports ==
    {MkReport("ok", BaseCat, BoundaryAud(f)) : f \in [AuditSet -> {0, 1}]}

Reports ==
    StructuralReports \cup OneCategoryReports \cup OneAuditReports
        \cup CategoryProductReports \cup MetricProductReports

\* The reports run against every state of the files.
CoreReports ==
    {MkReport("missing", BaseCat, BaseAud),
     MkReport("malformed", BaseCat, BaseAud),
     MkReport("ok", BaseCat, BaseAud),
     MkReport("ok", [BaseCat EXCEPT !["performance"] = 894], BaseAud),
     MkReport("ok", [BaseCat EXCEPT !["seo"] = Undefined], BaseAud),
     MkReport("ok", [BaseCat EXCEPT !["accessibility"] = Absent], BaseAud),
     MkReport("ok", BaseCat, [BaseAud EXCEPT !["cumulative-layout-shift"] = 15]),
     MkReport("ok", BaseCat, [BaseAud EXCEPT !["speed-index"] = Undefined])}

\* An entry written by an earlier run, the i-th of the log.
OldEntry(i) ==
    [timestamp |-> i, commit |-> "local", branch |-> "local",
     scores |-> ExtractScores(MkReport("ok", BaseCat, BaseAud)),
     metrics |-> ExtractMetrics(MkReport("ok", BaseCat, BaseAud))]

OldLog(n) == [i \in 1..n |-> OldEntry(i)]

HistoryLengths == {0, 1, HistoryCap - 1, HistoryCap}

HistoryFiles ==
    {MkHistoryFile(st, <<>>) : st \in {"absent", "malformed", "nonlist"}}
        \cup {MkHistoryFile("list", OldLog(n)) : n \in HistoryLengths}

CoreHistoryFiles ==
    {MkHistoryFile("absent", <<>>)}
        \cup {MkHistoryFile("list", OldLog(n)) : n \in {HistoryCap - 1, HistoryCap}}

MkFile(name, ext, size) == [name |-> name, ext |-> ext, size |-> size]

\* A build within the limits (one file exactly at the per-file limit), and
\* one with a file over the per-file limit and a total over three times it.
SmallBuild ==
    <<MkFile("assets", "", 4096),
      MkFile("index.html", "html", 900),
      MkFile("assets/app.js", "js", 1000),
      MkFile("assets/app.js.map", "map", 900000),
      MkFile("assets/style.css", "css", 2048),
      MkFile("assets/vendor.js", "js", maxBundleSize)>>

LargeBuild ==
    <<MkFile("a.js", "js", maxBundleSize + 1),
      MkFile("b.css", "css", maxBundleSize),
      MkFile("c.js", "js", maxBundleSize),
      MkFile("d.js", "js", 4096)>>

\* Three files at the per-file limit: the total is exactly three times it.
ExactBuild ==
    <<MkFile("a.css", "css", maxBundleSize),
      MkFile("c.js", "js", maxBundleSize),
      MkFile("readme.txt", "txt", 1),
      MkFile("static", "", 4096),
      MkFile("static/js", "", 4096),
      MkFile("static/js/b.js", "js", maxBundleSize)>>

BuildDirs ==
    {MkBuildDir("absent", <<>>), MkBuildDir("unreadable", <<>>),
     MkBuildDir("dir", <<>>), MkBuildDir("dir", SmallBuild),
     MkBuildDir("dir", LargeBuild), MkBuildDir("dir", ExactBuild)}

CoreBuildDirs == {MkBuildDir("absent", <<>>), MkBuildDir("dir", SmallBuild)}

MkEnv(sha, ref) == [GITHUB_SHA |-> sha, GITHUB_REF_NAME |-> ref]

Envs ==
    {MkEnv(Unset, Unset), MkEnv("4f2a9c1", "main"),
     MkEnv("", "main"), MkEnv("4f2a9c1", Unset), MkEnv("4f2a9c1", "")}

CoreEnvs == {MkEnv(Unset, Unset), MkEnv("4f2a9c1", "main")}

\* The file-system calls that throw in a run: reading the history file
\* ("history-read"), and the two halves of a writeFileSync, which opens the
\* file truncating it and then writes: "-open" is a failure of the open
\* (EACCES, EISDIR), "-write" a failure of the write after it (EFBIG,
\* ENOSPC, EIO).  ./reports holds the report that was read, so mkdirSync is
\* not reached after an evaluation.
FaultSets ==
    {{}, {"history-read"}, {"history-open"}, {"history-write"},
     {"html-open"}, {"html-write"},
     {"history-open", "html-open"}, {"history-write", "html-write"}}

\* fs.writeFileSync(historyPath, ...) throws; fs.writeFileSync(reportPath, ...)
\* throws.
HistoryWriteThrows(fs) == fs \cap {"history-open", "history-write"} # {}
HtmlWriteThrows(fs) == fs \cap {"html-open", "html-write"} # {}

\* ------------------------------------------------------------- initial state
files == <<report, historyFile, htmlReport, reportsDir, buildDir>>
world == <<env, faults, clock, runs, thresholds, previous, workers, writers>>
locals ==
    <<scores, metrics, passed, results, marks, historyData, logRead,
      histAttempts, bundle>>
imageVars ==
    <<tools, inputDir, outputDir, toolOutcome, imagePc, imageFiles, cursor,
      imageResults, invoked, imageConsole, imageExits>>
gateVars == <<files, world, locals, pc, console, exits>>
vars == <<gateVars, imageVars>>

\* One invocation at a time.
NoConcurrentRuns == workers = <<>> /\ writers = <<>>

\* optimize-images.js has not been started and has nothing to work on.
NoSnippets == [state |-> "none", snippets |-> <<>>]

ImageScriptIdle ==
    /\ tools = {}
    /\ inputDir = [exists |-> FALSE, entries |-> <<>>]
    /\ outputDir = [exists |-> FALSE, variants |-> {}, snippetsFile |-> NoSnippets]
    /\ toolOutcome = <<>>
    /\ imagePc = "start"
    /\ imageFiles = <<>>
    /\ cursor = 0
    /\ imageResults = <<>>
    /\ invoked = {}
    /\ imageConsole = <<>>
    /\ imageExits = <<>>

NoDocument == [state |-> "none", results |-> <<>>, scores |-> <<>>, metrics |-> <<>>]

\* previous before the first invocation, and after an invocation.
NoRun ==
    [ran |-> FALSE, evaluated |-> FALSE, scores |-> <<>>, metrics |-> <<>>,
     results |-> <<>>, passed |-> TRUE, exits |-> <<>>, historyData |-> <<>>,
     updated |-> FALSE, logRead |-> <<>>]

\* The locals of an invocation that has not evaluated anything yet.
FreshLocals ==
    /\ scores = <<>>
    /\ metrics = <<>>
    /\ passed = TRUE
    /\ results = <<>>
    /\ marks = <<>>
    /\ historyData = <<>>
    /\ logRead = <<>>
    /\ histAttempts = 0
    /\ bundle = NoBundle

Init ==
    /\ \/ /\ report \in Reports
          /\ historyFile \in CoreHistoryFiles
          /\ buildDir \in CoreBuildDirs
          /\ env \in CoreEnvs
          /\ faults = {}
       \/ /\ report \in CoreReports
          /\ historyFile \in HistoryFiles
          /\ buildDir \in BuildDirs
          /\ env \in Envs
          /\ faults \in FaultSets
    /\ htmlReport = NoDocument
    \* the report and the history log live in ./reports
    /\ reportsDir \in
         IF report.kind # "missing" \/ historyFile.state # "absent"
         THEN {TRUE} ELSE BOOLEAN
    /\ clock = HistoryCap + 1
    /\ runs = 1
    /\ thresholds = THRESHOLDS
    /\ previous = NoRun
    /\ pc = "start"
    /\ FreshLocals
    /\ console = <<>>
    /\ exits = <<>>
    /\ ImageScriptIdle
    /\ NoConcurrentRuns

\* The first invocation, about to start.
FirstRun ==
    /\ htmlReport = NoDocument
    /\ reportsDir = TRUE
    /\ clock = HistoryCap + 1
    /\ runs = 1
    /\ previous = NoRun
    /\ pc = "start"
    /\ FreshLocals
    /\ console = <<>>
    /\ exits = <<>>

\* THRESHOLDS with the entries of the metrics in dropped left out, and
\* THRESHOLDS with a layout-shift threshold of 0.
TableWithout(dropped) ==
    [k \in (CategorySet \cup MetricSet) \ dropped |-> THRESHOLDS[k]]

ThresholdTables ==
    {TableWithout(dropped) : dropped \in SUBSET MetricSet}
        \cup {[THRESHOLDS EXCEPT !["cumulative-layout-shift"] = 0]}

\* The script built with another threshold table: every table of
\* ThresholdTables, against reports whose metrics are at or just above the
\* thresholds of THRESHOLDS.
InitTables ==
    /\ thresholds \in ThresholdTables
    /\ report \in StructuralReports \cup MetricProductReports
                    \cup {MkReport("ok", [BaseCat EXCEPT !["seo"] = 894], BaseAud)}
    /\ historyFile \in {MkHistoryFile("absent", <<>>),
                        MkHistoryFile("list", OldLog(HistoryCap - 1))}
    /\ buildDir = MkBuildDir("absent", <<>>)
    /\ env = MkEnv(Unset, Unset)
    /\ faults = {}
    /\ FirstRun
    /\ ImageScriptIdle
    /\ NoConcurrentRuns

\* Every score from 0 to 1 in steps of a thousandth, in one category at a
\* time, the other categories and the metrics well inside their thresholds.
Thousandths == 0..1000

InitScores ==
    /\ thresholds = THRESHOLDS
    /\ report \in StructuralReports
                    \cup {MkReport("ok", [BaseCat EXCEPT ![c] = k], BaseAud) :
                             c \in CategorySet, k \in Thousandths}
    /\ historyFile = MkHistoryFile("absent", <<>>)
    /\ buildDir = MkBuildDir("absent", <<>>)
    /\ env = MkEnv(Unset, Unset)
    /\ faults = {}
    /\ FirstRun
    /\ ImageScriptIdle
    /\ NoConcurrentRuns

\* ------------------------------------------------------------- checkPerformance
\* Mutant: a missing report ends the process with status 0.
ReportMissingExitsZero ==
    /\ pc = "start"
    /\ report.kind = "missing"
    /\ console' = Append(console, "report-not-found")
    /\ exits' = Append(exits, 0)
    /\ pc' = "exited"
    /\ UNCHANGED <<files, world, imageVars, locals>>

\* if (!fs.existsSync(LIGHTHOUSE_REPORT)) { console.error(...); process.exit(1) }
ReportMissing ==
    /\ pc = "start"
    /\ report.kind = "missing"
    /\ console' = Append(console, "report-not-found")
    /\ exits' = Append(exits, 1)
    /\ pc' = "exited"
    /\ UNCHANGED <<files, world, imageVars, locals>>

\* Mutant: the report document is written before the catch exits.
ReportUnusableWritesDocument ==
    /\ pc = "start"
    /\ report.kind # "missing"
    /\ ExtractThrows(report)
    /\ console' = Append(console, "error-analyzing")
    /\ htmlReport' = [state |-> "written", results |-> <<>>,
                       scores |-> <<>>, metrics |-> <<>>]
    /\ exits' = Append(exits, 1)
    /\ pc' = "exited"
    /\ UNCHANGED <<report, historyFile, reportsDir, buildDir, world, imageVars, locals>>

\* JSON.parse or the extraction of scores and metrics throws; the catch of
\* checkPerformance reports it and exits with 1.
ReportUnusable ==
    /\ pc = "start"
    /\ report.kind # "missing"
    /\ ExtractThrows(report)
    /\ console' = Append(console, "error-analyzing")
    /\ exits' = Append(exits, 1)
    /\ pc' = "exited"
    /\ UNCHANGED <<files, world, imageVars, locals>>

\* Lines 34-119: parse, extract, and evaluate every score and metric.
Evaluate ==
    /\ pc = "start"
    /\ report.kind # "missing"
    /\ ~ExtractThrows(report)
    /\ scores' = ExtractScores(report)
    /\ metrics' = ExtractMetrics(report)
    /\ results' = EvalResults(scores', metrics')
    /\ marks' = EvalMarks(scores', metrics')
    /\ passed' = EvalPassed(scores', metrics')
    /\ console' = console \o <<"scores", "metrics">>
    /\ pc' = "evaluated"
    /\ UNCHANGED <<files, world, imageVars, exits, historyData, logRead, histAttempts, bundle>>

\* ------------------------------------------------------------- savePerformanceHistory
\* The history file after a writeFileSync that threw: as it was when the
\* open failed, else cut off (empty or the head of the document, which
\* JSON.parse rejects).
HistoryAfterThrow(file, fs) ==
    IF "history-open" \in fs THEN file ELSE MkHistoryFile("malformed", <<>>)

\* Mutant: a document that cannot be used is replaced by an empty list.
ReadHistoryStartsOver(file, fs) ==
    IF file.state = "absent" THEN [ok |-> TRUE, log |-> <<>>]
    ELSE IF "history-read" \in fs THEN [ok |-> FALSE, log |-> <<>>]
    ELSE IF file.state = "list" THEN [ok |-> TRUE, log |-> file.entries]
    ELSE [ok |-> TRUE, log |-> <<>>]

\* The list the try block starts from, or a throw before the push:
\* [ok, log].
ReadHistory(file, fs) ==
    IF file.state = "absent" THEN [ok |-> TRUE, log |-> <<>>]
    ELSE IF "history-read" \in fs THEN [ok |-> FALSE, log |-> <<>>]
    ELSE IF file.state = "list" THEN [ok |-> TRUE, log |-> file.entries]
    ELSE [ok |-> FALSE, log |-> <<>>]

\* Mutant: the document holds the new record alone.
WrittenHistoryOnlyNew(log, rec) == MkHistoryFile("list", <<ToJSON(rec)>>)

\* Mutant: a record with the scores and metrics of the last entry is not
\* appended again.
WrittenHistoryDeduped(log, rec) ==
    IF /\ log # <<>>
       /\ log[Len(log)].scores = ToJSON(rec).scores
       /\ log[Len(log)].metrics = ToJSON(rec).metrics
    THEN MkHistoryFile("list", log)
    ELSE MkHistoryFile("list", AppendCapped(log, ToJSON(rec)))

\* The document written: JSON.stringify(history, null, 2).
WrittenHistory(log, rec) == MkHistoryFile("list", AppendCapped(log, ToJSON(rec)))

\* Mutant: no try/catch in savePerformanceHistory; its throw reaches the
\* catch of checkPerformance.
SavePerformanceHistoryUnguarded ==
    /\ pc = "evaluated"
    /\ LET rec == MkHistoryData(clock, env, scores, metrics)
           read == ReadHistory(historyFile, faults)
       IN  /\ historyData' = <<rec>>
           /\ logRead' = read.log
           /\ IF read.ok /\ ~HistoryWriteThrows(faults)
              THEN /\ historyFile' = WrittenHistory(read.log, rec)
                   /\ reportsDir' = TRUE
                   /\ console' = Append(console, "history-updated")
                   /\ pc' = "history-done"
                   /\ exits' = exits
              ELSE /\ historyFile' = IF read.ok
                                      THEN HistoryAfterThrow(historyFile, faults)
                                      ELSE historyFile
                   /\ UNCHANGED reportsDir
                   /\ console' = Append(console, "error-analyzing")
                   /\ pc' = "exited"
                   /\ exits' = Append(exits, 1)
    /\ histAttempts' = histAttempts + 1
    /\ UNCHANGED <<report, htmlReport, buildDir, world, imageVars,
                   scores, metrics, passed, results, marks, bundle>>

SavePerformanceHistory ==
    /\ pc = "evaluated"
    /\ LET rec == MkHistoryData(clock, env, scores, metrics)
           read == ReadHistory(historyFile, faults)
       IN  /\ historyData' = <<rec>>
           /\ logRead' = read.log
           /\ IF read.ok /\ ~HistoryWriteThrows(faults)
              THEN /\ historyFile' = WrittenHistory(read.log, rec)
                   /\ reportsDir' = TRUE
                   /\ console' = Append(console, "history-updated")
              ELSE /\ historyFile' = IF read.ok
                                      THEN HistoryAfterThrow(historyFile, faults)
                                      ELSE historyFile
                   /\ UNCHANGED reportsDir
                   /\ console' = Append(console, "history-warning")
    /\ histAttempts' = histAttempts + 1
    /\ pc' = "history-done"
    /\ UNCHANGED <<report, htmlReport, buildDir, world, imageVars, exits,
                   scores, metrics, passed, results, marks, bundle>>

\* ------------------------------------------------------------- checkBundleSize
\* Mutant: a file or a total over its limit fails the gate.
CheckBundleSizeGating ==
    /\ pc = "history-done"
    /\ bundle' = CheckBundle(buildDir)
    /\ passed' = (passed /\ bundle'.totalOk
                    /\ \A i \in DOMAIN bundle'.files : bundle'.files[i].ok)
    /\ console' = Append(console, "bundle-" \o bundle'.state)
    /\ pc' = "bundle-done"
    /\ UNCHANGED <<files, world, imageVars, exits, scores, metrics, results,
                   marks, historyData, logRead, histAttempts>>

CheckBundleSize ==
    /\ pc = "history-done"
    /\ bundle' = CheckBundle(buildDir)
    /\ console' = Append(console, "bundle-" \o bundle'.state)
    /\ pc' = "bundle-done"
    /\ UNCHANGED <<files, world, imageVars, exits, scores, metrics, passed, results,
                   marks, historyData, logRead, histAttempts>>

\* ------------------------------------------------------------- generatePerformanceReport
\* The document embeds the results, the scores and the metrics.
WrittenDocument(res, sc, me) ==
    [state |-> "written", results |-> res, scores |-> sc, metrics |-> me]

\* performance-report.html after a writeFileSync that threw: as it was when
\* the open failed, else the head of the document.
PartialDocument ==
    [state |-> "partial", results |-> <<>>, scores |-> <<>>, metrics |-> <<>>]
HtmlAfterThrow(doc, fs) == IF "html-open" \in fs THEN doc ELSE PartialDocument

\* Mutant: the two exit statuses exchanged.
BranchStatusSwapped(ok) == IF ok THEN 1 ELSE 0

\* The status of the branch taken at line 129.
BranchStatus(ok) == IF ok THEN 0 ELSE 1

\* Mutant: the report document is generated in the passed branch only.
FinishReportOnlyWhenPassed ==
    /\ pc = "bundle-done"
    /\ IF HtmlWriteThrows(faults) /\ passed
       THEN /\ console' = console \o <<"all-passed", "error-analyzing">>
            /\ exits' = Append(exits, 1)
            /\ htmlReport' = HtmlAfterThrow(htmlReport, faults)
            /\ UNCHANGED reportsDir
       ELSE IF passed
       THEN /\ console' = console \o <<"all-passed", "report-generated">>
            /\ htmlReport' = WrittenDocument(results, scores, metrics)
            /\ reportsDir' = TRUE
            /\ exits' = Append(exits, 0)
       ELSE /\ console' = console \o <<"checks-failed">>
            /\ exits' = Append(exits, 1)
            /\ UNCHANGED <<htmlReport, reportsDir>>
    /\ pc' = "exited"
    /\ UNCHANGED <<report, historyFile, buildDir, world, imageVars, locals>>

\* Mutant: the report document is also written into the build directory.
FinishWritesIntoBuild ==
    /\ pc = "bundle-done"
    /\ IF HtmlWriteThrows(faults)
       THEN /\ console' = console \o
                 <<IF passed THEN "all-passed" ELSE "checks-failed",
                   "error-analyzing">>
            /\ exits' = Append(exits, 1)
            /\ htmlReport' = HtmlAfterThrow(htmlReport, faults)
            /\ UNCHANGED <<reportsDir, buildDir>>
       ELSE /\ console' = console \o
                 <<IF passed THEN "all-passed" ELSE "checks-failed",
                   "report-generated">>
            /\ htmlReport' = WrittenDocument(results, scores, metrics)
            /\ reportsDir' = TRUE
            /\ buildDir' = MkBuildDir("dir",
                  Append(buildDir.files,
                         MkFile("performance-report.html", "html", 4096)))
            /\ exits' = Append(exits, BranchStatus(passed))
    /\ pc' = "exited"
    /\ UNCHANGED <<report, historyFile, world, imageVars, locals>>

\* Mutant: generatePerformanceReport catches its own failure.
FinishReportGuarded ==
    /\ pc = "bundle-done"
    /\ IF HtmlWriteThrows(faults)
       THEN /\ console' = console \o
                 <<IF passed THEN "all-passed" ELSE "checks-failed",
                   "report-warning">>
            /\ htmlReport' = HtmlAfterThrow(htmlReport, faults)
            /\ UNCHANGED reportsDir
       ELSE /\ console' = console \o
                 <<IF passed THEN "all-passed" ELSE "checks-failed",
                   "report-generated">>
            /\ htmlReport' = WrittenDocument(results, scores, metrics)
            /\ reportsDir' = TRUE
    /\ exits' = Append(exits, BranchStatus(passed))
    /\ pc' = "exited"
    /\ UNCHANGED <<report, historyFile, buildDir, world, imageVars, locals>>

\* Mutant: the failed branch never reaches process.exit.
FinishOnlyWhenPassed ==
    /\ pc = "bundle-done"
    /\ passed
    /\ IF HtmlWriteThrows(faults)
       THEN /\ console' = console \o <<"all-passed", "error-analyzing">>
            /\ exits' = Append(exits, 1)
            /\ htmlReport' = HtmlAfterThrow(htmlReport, faults)
            /\ UNCHANGED reportsDir
       ELSE /\ console' = console \o <<"all-passed", "report-generated">>
            /\ htmlReport' = WrittenDocument(results, scores, metrics)
            /\ reportsDir' = TRUE
            /\ exits' = Append(exits, BranchStatus(passed))
    /\ pc' = "exited"
    /\ UNCHANGED <<report, historyFile, buildDir, world, imageVars, locals>>

\* Lines 127-149: the pass/fail branch, the report document, the exit.  A
\* throw of generatePerformanceReport reaches the catch of checkPerformance.
Finish ==
    /\ pc = "bundle-done"
    /\ IF HtmlWriteThrows(faults)
       THEN /\ console' = console \o
                 <<IF passed THEN "all-passed" ELSE "checks-failed",
                   "error-analyzing">>
            /\ exits' = Append(exits, 1)
            /\ htmlReport' = HtmlAfterThrow(htmlReport, faults)
            /\ UNCHANGED reportsDir
       ELSE /\ console' = console \o
                 <<IF passed THEN "all-passed" ELSE "checks-failed",
                   "report-generated">>
            /\ htmlReport' = WrittenDocument(results, scores, metrics)
            /\ reportsDir' = TRUE
            /\ exits' = Append(exits, BranchStatus(passed))
    /\ pc' = "exited"
    /\ UNCHANGED <<report, historyFile, buildDir, world, imageVars, locals>>

\* ------------------------------------------------------------- the next run
\* The script is started again, later, on the same files.
NewRun ==
    /\ pc = "exited"
    /\ runs < MaxRuns
    /\ runs' = runs + 1
    /\ clock' = clock + 1
    /\ pc' = "start"
    /\ scores' = <<>>
    /\ metrics' = <<>>
    /\ passed' = TRUE
    /\ results' = <<>>
    /\ marks' = <<>>
    /\ historyData' = <<>>
    /\ logRead' = <<>>
    /\ histAttempts' = 0
    /\ bundle' = NoBundle
    /\ console' = <<>>
    /\ exits' = <<>>
    /\ previous' =
          [ran |-> TRUE,
           evaluated |-> (Len(console) > 0 /\ console[1] = "scores"),
           scores |-> scores, metrics |-> metrics, results |-> results,
           passed |-> passed, exits |-> exits, historyData |-> historyData,
           updated |-> (\E i \in DOMAIN console : console[i] = "history-updated"),
           logRead |-> logRead]
    /\ UNCHANGED <<files, env, faults, thresholds, workers, writers, imageVars>>

Next ==
    \/ ReportMissing
    \/ ReportUnusable
    \/ Evaluate
    \/ SavePerformanceHistory
    \/ CheckBundleSize
    \/ Finish
    \/ NewRun

Spec == Init /\ [][Next]_vars

\* A step of the running invocation.  The script is straight-line code on
\* synchronous file-system calls (the one await is on a function that
\* awaits nothing), so a started invocation keeps taking its next step.
RunStep ==
    \/ ReportMissing
    \/ ReportUnusable
    \/ Evaluate
    \/ SavePerformanceHistory
    \/ CheckBundleSize
    \/ Finish

\* Every path of a run: each report of CoreReports, a history log that is
\* absent, unreadable or about to reach the cap, a build directory that is
\* absent, unreadable or has files, and every fault set.
InitLive ==
    /\ thresholds = THRESHOLDS
    /\ report \in CoreReports
    /\ historyFile \in {MkHistoryFile("absent", <<>>),
                        MkHistoryFile("malformed", <<>>),
                        MkHistoryFile("list", OldLog(HistoryCap - 1))}
    /\ buildDir \in {MkBuildDir("absent", <<>>), MkBuildDir("unreadable", <<>>),
                     MkBuildDir("dir", SmallBuild)}
    /\ env = MkEnv(Unset, Unset)
    /\ faults \in FaultSets
    /\ FirstRun
    /\ ImageScriptIdle
    /\ NoConcurrentRuns

SpecLive == InitLive /\ [][Next]_vars /\ WF_vars(RunStep)

SpecTables == InitTables /\ [][Next]_vars

SpecScores == InitScores /\ [][Next]_vars

\* ------------------------------------------------------------- optimize-images.js
\* Files are named by tokens: the relative path of an input file without
\* its extension (its baseName) is a sequence of strings, so that
\* "shot.jpg.png" has the baseName <<"shot", ".jpg">> and "team/photo.jpeg"
\* the baseName <<"team/", "photo">>; a generated variant is
\* <stem>-<size>w<ext>, its stem the path below CONFIG.outputDir.
\* toolOutcome says what the three tools do with each file, which includes
\* whether they can write into the directory of their output file; no
\* other process touches the directories while the script runs.
MaxEntries == 4

CONFIG ==
    [formats |-> <<"webp", "avif">>,
     sizes |-> <<320, 640, 960, 1280, 1920>>,
     extensions |-> {".jpg", ".jpeg", ".png"}]

SizeSet == {CONFIG.sizes[i] : i \in DOMAIN CONFIG.sizes}
FormatSet == {CONFIG.formats[i] : i \in DOMAIN CONFIG.formats}

\* const tools of checkDependencies, in the order they are looked up.
RequiredTools == <<"cwebp", "avifenc", "convert">>
ToolSet == {RequiredTools[i] : i \in DOMAIN RequiredTools}

\* convertToWebP runs cwebp, convertToAVIF runs avifenc.
ConverterOf(format) == IF format = "webp" THEN "cwebp" ELSE "avifenc"
DotFormat(format) == IF format = "webp" THEN ".webp" ELSE ".avif"

MkImage(name, ext) == [name |-> name, ext |-> ext]
MkVariant(stem, size, ext) == [stem |-> stem, size |-> size, ext |-> ext]
MkInvocation(tool, inputFile, size) ==
    [tool |-> tool, image |-> inputFile, size |-> size]
MkLine(tag, name, n) == [tag |-> tag, name |-> name, n |-> n]

\* path.extname(item).toLowerCase() on the extensions of the modelled files.
ToLowerCase(ext) ==
    IF ext = ".PNG" THEN ".png" ELSE IF ext = ".JPG" THEN ".jpg" ELSE ext

\* getImageFiles: the entries of the directory walk whose extension is in
\* CONFIG.extensions, in the order of the walk.
IsImageFile(entry) == ToLowerCase(entry.ext) \in CONFIG.extensions
getImageFiles(dir) == SelectSeq(dir.entries, IsImageFile)

\* sizeInfo.file.replace('.jpg', '.' + format): the first '.jpg' of the
\* file name is replaced, which is the extension unless the baseName has one.
ReplaceJpg(file, format) ==
    LET hits == {i \in DOMAIN file.stem : file.stem[i] = ".jpg"}
    IN  IF hits = {}
        THEN [file EXCEPT !.ext = DotFormat(format)]
        ELSE LET first == CHOOSE i \in hits : \A j \in hits : i <= j
             IN  [file EXCEPT !.stem[first] = DotFormat(format)]

\* The directory tokens of the modelled paths.
DirTokens == {"team/"}

\* path.parse(relativePath).dir, and baseName = path.join(parsedPath.dir,
\* parsedPath.name): the relative path without its extension.
ParsedDir(inputFile) == SelectSeq(inputFile.name, LAMBDA t : t \in DirTokens)
BaseName(inputFile) == inputFile.name

\* outputDir = path.join(CONFIG.outputDir, parsedPath.dir), below
\* CONFIG.outputDir.
OutputDirOf(inputFile) == ParsedDir(inputFile)

\* generateResponsiveSizes: one convert per size of CONFIG.sizes; a size is
\* pushed when convert and the stat of its output succeed (out.jpg).  The
\* output file is path.join(outputDir, baseName-<size>w.jpg): the directory
\* of the input file appears in it twice, once from outputDir and once from
\* baseName.
generateResponsiveSizes(inputFile, out) ==
    LET ok == SelectSeq(CONFIG.sizes, LAMBDA size : size \in out.jpg)
    IN  [i \in DOMAIN ok |->
            [size |-> ok[i],
             file |-> MkVariant(OutputDirOf(inputFile) \o BaseName(inputFile),
                                ok[i], ".jpg")]]

\* Mutant: a conversion is recorded whether or not it succeeded.
responsiveFormatSizesUnchecked(format, responsiveSizes, out) ==
    [i \in DOMAIN responsiveSizes |->
        [size |-> responsiveSizes[i].size,
         file |-> ReplaceJpg(responsiveSizes[i].file, format)]]

\* Lines 168-194: the list built for one format from the resized files; an
\* entry is pushed when the conversion returned true (out[format]).
responsiveFormatSizes(format, responsiveSizes, out) ==
    LET ok == SelectSeq(responsiveSizes,
                        LAMBDA sizeInfo : sizeInfo.size \in out[format])
    IN  [i \in DOMAIN ok |->
            [size |-> ok[i].size, file |-> ReplaceJpg(ok[i].file, format)]]

FilesOf(list) == {list[i].file : i \in DOMAIN list}
SizesOfSet(list) == {list[i].size : i \in DOMAIN list}
SizesOf(list) == [i \in DOMAIN list |-> list[i].size]

\* Whether the pair (g, t) of the loops of lines 165-192 comes before the
\* pair (f, s): formats in the order of CONFIG.formats, sizes in the order
\* of CONFIG.sizes.
IndexIn(seq, x) == CHOOSE i \in DOMAIN seq : seq[i] = x
PairBefore(g, t, f, s) ==
    \/ IndexIn(CONFIG.formats, g) < IndexIn(CONFIG.formats, f)
    \/ g = f /\ IndexIn(CONFIG.sizes, t) < IndexIn(CONFIG.sizes, s)

\* processImage: whether it throws (thrown), whether it got to print its
\* "Processing" line (printed), the result it returns, the tool invocations
\* it makes and the files these leave in the output directory.  It throws
\* in mkdirSync (line 139), in the statSync of the input file (144), or in
\* the statSync of a converted file (181) that is gone again after its
\* converter returned true: the loops stop there, with the files made so
\* far left behind.
processImage(inputFile, out) ==
    LET responsiveSizes == generateResponsiveSizes(inputFile, out)
        converted == [format \in FormatSet |->
                         responsiveFormatSizes(format, responsiveSizes, out)]
        at == out.throws.at
        reached(format, size) ==
            \/ at # "statSync-output"
            \/ PairBefore(format, size, out.throws.format, out.throws.size)
        stopped(format, size) ==
            at = "statSync-output" /\ format = out.throws.format
                /\ size = out.throws.size
    IN  IF at \in {"mkdirSync", "statSync-input"}
        THEN [thrown |-> TRUE, printed |-> at = "statSync-input",
              result |-> <<>>, invoked |-> {}, written |-> {}]
        ELSE [thrown |-> at = "statSync-output",
              printed |-> TRUE,
              result |->
                 [original |-> inputFile,
                  baseName |-> BaseName(inputFile),
                  responsive |-> [jpg |-> responsiveSizes,
                                  webp |-> converted["webp"],
                                  avif |-> converted["avif"]]],
              invoked |->
                 {MkInvocation("convert", inputFile, size) : size \in SizeSet}
                   \cup {MkInvocation(ConverterOf(pair[1]), inputFile, pair[2]) :
                            pair \in {q \in FormatSet \X SizesOfSet(responsiveSizes) :
                                         reached(q[1], q[2]) \/ stopped(q[1], q[2])}},
              written |->
                 FilesOf(responsiveSizes)
                   \cup UNION {{converted[format][i].file :
                                   i \in {j \in DOMAIN converted[format] :
                                             reached(format, converted[format][j].size)}} :
                               format \in FormatSet}]

\* generateSrcSet: one reference baseName-<size>w.<format> per size.
generateSrcSet(baseName, sizes, ext) ==
    [i \in DOMAIN sizes |-> MkVariant(baseName, sizes[i], ext)]

\* generateHTMLSnippet: the files the <picture> element refers to.  An
\* empty avif or webp list gives no <source> element.
generateHTMLSnippet(result) ==
    [baseName |-> result.baseName,
     avif |-> generateSrcSet(result.baseName, SizesOf(result.responsive.avif), ".avif"),
     webp |-> generateSrcSet(result.baseName, SizesOf(result.responsive.webp), ".webp"),
     src |-> MkVariant(result.baseName, 640, ".jpg"),
     srcSet |-> generateSrcSet(result.baseName, SizesOf(result.responsive.jpg), ".jpg")]

\* htmlSnippets, as saved in image-snippets.html.
htmlSnippets(res) ==
    [i \in DOMAIN res |->
        [file |-> res[i].baseName, html |-> generateHTMLSnippet(res[i])]]

\* --- inputs of optimize-images.js
\* Where the body of the loop of lines 262-274 throws for an input file:
\* "none", "mkdirSync" (line 139), "statSync-input" (144), "statSync-output"
\* (181, for the converted file of format and size), or "statSync-original"
\* (267, after processImage returned and its result was pushed).
ThrowAt(at, format, size) == [at |-> at, format |-> format, size |-> size]
Returns == ThrowAt("none", "", 0)

\* What happens to one input file: where the loop body throws, and the sizes
\* for which convert, cwebp and avifenc succeed (a converter only ever gets
\* a file that convert produced).
MkOutcome(throws, jpg, webp, avif) ==
    [throws |-> throws, jpg |-> jpg, webp |-> webp, avif |-> avif]

AllSucceed == MkOutcome(Returns, SizeSet, SizeSet, SizeSet)
Throws == MkOutcome(ThrowAt("mkdirSync", "", 0), {}, {}, {})
ThrowsAtInput == MkOutcome(ThrowAt("statSync-input", "", 0), {}, {}, {})

CoreReturns ==
    {AllSucceed,
     MkOutcome(Returns, {}, {}, {}),
     MkOutcome(Returns, {320, 640, 1280}, {320, 1280}, {640}),
     MkOutcome(Returns, SizeSet \ {640}, SizeSet \ {640}, {}),
     MkOutcome(Returns, SizeSet, {}, SizeSet)}

\* The statSync of line 181 is reached for a size whose resize and
\* conversion succeeded.
ThrowingOutcomes ==
    {Throws, ThrowsAtInput}
      \cup {[o EXCEPT !.throws = ThrowAt("statSync-original", "", 0)] :
               o \in CoreReturns}
      \cup UNION {{[o EXCEPT !.throws = ThrowAt("statSync-output", format, size)] :
                      size \in o.jpg \cap o[format]} :
                  o \in CoreReturns, format \in FormatSet}

AllOutcomes ==
    ThrowingOutcomes \cup
    UNION {{MkOutcome(Returns, jpg, webp, avif) :
               webp \in SUBSET jpg, avif \in SUBSET jpg} :
           jpg \in SUBSET SizeSet}

CoreOutcomes ==
    CoreReturns \cup
    {Throws, ThrowsAtInput,
     [AllSucceed EXCEPT !.throws = ThrowAt("statSync-original", "", 0)],
     [AllSucceed EXCEPT !.throws = ThrowAt("statSync-output", "webp", 320)],
     MkOutcome(ThrowAt("statSync-output", "avif", 640),
               {320, 640, 1280}, {320, 1280}, {640})}

\* The files the walk of ./src/assets/images can meet, in walk order.
ImagePool ==
    <<MkImage(<<"hero">>, ".jpg"),
      MkImage(<<"shot", ".jpg">>, ".png"),
      MkImage(<<"notes">>, ".txt"),
      MkImage(<<"team/", "photo">>, ".jpeg"),
      MkImage(<<"LOGO">>, ".PNG"),
      MkImage(<<"banner">>, ".JPG")>>

EntrySet(entries) == {entries[i] : i \in DOMAIN entries}

\* The outcomes of the entries of a listing, each image taking one of
\* outcomes; a file that is not an image is never processed.
OutcomesFor(entries, outcomes) ==
    {o \in [EntrySet(entries) -> outcomes \cup {AllSucceed}] :
        \A e \in EntrySet(entries) : ~IsImageFile(e) => o[e] = AllSucceed}

MkInputDir(exists, entries) == [exists |-> exists, entries |-> entries]
MkOutputDir(exists, variants, snippetsFile) ==
    [exists |-> exists, variants |-> variants, snippetsFile |-> snippetsFile]

\* performance-check.js is not running.
GateIdle ==
    /\ thresholds = THRESHOLDS
    /\ report = MkReport("missing", BaseCat, BaseAud)
    /\ historyFile = MkHistoryFile("absent", <<>>)
    /\ buildDir = MkBuildDir("absent", <<>>)
    /\ env = MkEnv(Unset, Unset)
    /\ faults = {}
    /\ FirstRun
    /\ NoConcurrentRuns

\* One image with every outcome; up to MaxEntries files with the outcomes
\* of CoreOutcomes; and every set of installed tools, with and without the
\* two directories.
InitImages ==
    /\ GateIdle
    /\ \/ /\ tools = ToolSet
          /\ \E i \in {1, 2} :
                /\ inputDir = MkInputDir(TRUE, <<ImagePool[i]>>)
                /\ toolOutcome \in [{ImagePool[i]} -> AllOutcomes]
          /\ outputDir = MkOutputDir(FALSE, {}, NoSnippets)
       \/ /\ tools = ToolSet
          /\ \E n \in 0..MaxEntries :
                /\ inputDir = MkInputDir(TRUE, SubSeq(ImagePool, 1, n))
                /\ toolOutcome \in OutcomesFor(SubSeq(ImagePool, 1, n), CoreOutcomes)
          /\ outputDir = MkOutputDir(FALSE, {}, NoSnippets)
       \/ /\ tools \in SUBSET ToolSet
          /\ \/ /\ inputDir = MkInputDir(FALSE, <<>>)
                /\ toolOutcome = <<>>
             \/ /\ inputDir = MkInputDir(TRUE, SubSeq(ImagePool, 1, 2))
                /\ toolOutcome \in OutcomesFor(SubSeq(ImagePool, 1, 2), {AllSucceed})
          /\ outputDir \in {MkOutputDir(e, {}, NoSnippets) : e \in BOOLEAN}
    /\ imagePc = "start"
    /\ imageFiles = <<>>
    /\ cursor = 0
    /\ imageResults = <<>>
    /\ invoked = {}
    /\ imageConsole = <<>>
    /\ imageExits = <<>>

\* --- optimizeImages
\* Mutant: a missing tool is reported and the script goes on.
CheckDependenciesWarns ==
    /\ imagePc = "start"
    /\ imageConsole' = imageConsole \o
          [i \in DOMAIN RequiredTools |->
              MkLine(IF RequiredTools[i] \in tools THEN "found" ELSE "not-found",
                     RequiredTools[i], 0)]
    /\ imagePc' = "deps-ok"
    /\ UNCHANGED <<tools, inputDir, outputDir, toolOutcome, imageFiles, cursor,
                   imageResults, invoked, imageExits, gateVars>>

\* checkDependencies: the tools are looked up in order; the first one that
\* is missing ends the process with status 1.
CheckDependencies ==
    /\ imagePc = "start"
    /\ LET missing == {i \in DOMAIN RequiredTools : RequiredTools[i] \notin tools}
           found(n) == [i \in 1..n |-> MkLine("found", RequiredTools[i], 0)]
       IN  IF missing = {}
           THEN /\ imageConsole' = imageConsole \o found(Len(RequiredTools))
                /\ imagePc' = "deps-ok"
                /\ UNCHANGED imageExits
           ELSE LET first == CHOOSE i \in missing : \A j \in missing : i <= j
                IN  /\ imageConsole' = imageConsole \o found(first - 1)
                          \o <<MkLine("not-found", RequiredTools[first], 0)>>
                    /\ imageExits' = Append(imageExits, 1)
                    /\ imagePc' = "exited"
    /\ UNCHANGED <<tools, inputDir, outputDir, toolOutcome, imageFiles, cursor,
                   imageResults, invoked, gateVars>>

\* Lines 237-259: the input directory must exist; the output directory is
\* created; the images are collected; with no image the function returns.
CollectImages ==
    /\ imagePc = "deps-ok"
    /\ IF ~inputDir.exists
       THEN /\ imageConsole' = Append(imageConsole, MkLine("input-not-found", "", 0))
            /\ imageExits' = Append(imageExits, 1)
            /\ imagePc' = "exited"
            /\ UNCHANGED <<outputDir, imageFiles, cursor>>
       ELSE /\ outputDir' = [outputDir EXCEPT !.exists = TRUE]
            /\ imageFiles' = getImageFiles(inputDir)
            /\ IF Len(getImageFiles(inputDir)) = 0
               THEN /\ imageConsole' = imageConsole \o
                          <<MkLine("found-images", "", 0), MkLine("no-images", "", 0)>>
                    /\ imagePc' = "done"
                    /\ UNCHANGED cursor
               ELSE /\ imageConsole' = Append(imageConsole,
                          MkLine("found-images", "", Len(getImageFiles(inputDir))))
                    /\ imagePc' = "loop"
                    /\ cursor' = 1
            /\ UNCHANGED imageExits
    /\ UNCHANGED <<tools, inputDir, toolOutcome, imageResults, invoked, gateVars>>

\* The lines one iteration prints: "Processing" (line 142) when
\* processImage got there, "Failed to process" (272) when the body threw.
IterationLines(n, done, out) ==
    (IF done.printed THEN <<MkLine("processing", "", n)>> ELSE <<>>)
      \o (IF done.thrown \/ out.throws.at = "statSync-original"
          THEN <<MkLine("failed", "", n)>> ELSE <<>>)

\* Mutant: an image whose processing throws ends the loop.
ProcessNextStopsAtThrow ==
    /\ imagePc = "loop"
    /\ cursor <= Len(imageFiles)
    /\ LET imageFile == imageFiles[cursor]
           out == toolOutcome[imageFile]
           done == processImage(imageFile, out)
       IN  /\ imageResults' = IF done.thrown THEN imageResults
                              ELSE Append(imageResults, done.result)
           /\ invoked' = invoked \cup done.invoked
           /\ outputDir' = [outputDir EXCEPT !.variants = @ \cup done.written]
           /\ imageConsole' = imageConsole \o IterationLines(cursor, done, out)
           /\ cursor' = IF out.throws.at # "none" THEN Len(imageFiles) + 1
                        ELSE cursor + 1
    /\ UNCHANGED <<tools, inputDir, toolOutcome, imagePc, imageFiles, imageExits,
                   gateVars>>

\* One iteration of the loop of lines 262-274: the result of processImage
\* is pushed; when processImage or the statSync of line 267 throws, the
\* error is printed and the loop goes on.
ProcessNext ==
    /\ imagePc = "loop"
    /\ cursor <= Len(imageFiles)
    /\ LET imageFile == imageFiles[cursor]
           out == toolOutcome[imageFile]
           done == processImage(imageFile, out)
       IN  /\ imageResults' = IF done.thrown THEN imageResults
                              ELSE Append(imageResults, done.result)
           /\ invoked' = invoked \cup done.invoked
           /\ outputDir' = [outputDir EXCEPT !.variants = @ \cup done.written]
           /\ imageConsole' = imageConsole \o IterationLines(cursor, done, out)
    /\ cursor' = cursor + 1
    /\ UNCHANGED <<tools, inputDir, toolOutcome, imagePc, imageFiles, imageExits,
                   gateVars>>

\* Lines 276-333, after the loop: the summary is printed and the snippets
\* of the results are saved; the function returns.
Summarize ==
    /\ imagePc = "loop"
    /\ cursor > Len(imageFiles)
    /\ imageConsole' = imageConsole \o
          <<MkLine("summary", "", Len(imageResults)),
            MkLine("snippets-saved", "", Len(imageResults))>>
    /\ outputDir' = [outputDir EXCEPT
          !.snippetsFile = [state |-> "written", snippets |-> htmlSnippets(imageResults)]]
    /\ imagePc' = "done"
    /\ UNCHANGED <<tools, inputDir, toolOutcome, imageFiles, cursor, imageResults,
                   invoked, imageExits, gateVars>>

NextImages ==
    \/ CheckDependencies
    \/ CollectImages
    \/ ProcessNext
    \/ Summarize

SpecImages == InitImages /\ [][NextImages]_vars

Min(a, b) == IF a <= b THEN a ELSE b

\* ------------------------------------------------------------- text
\* A text is the sequence of its characters, each a string of length one.
\* Every character the history file holds is one byte in UTF-8.
Quote == "\""
LF == "\n"
Digits == <<"0", "1", "2", "3", "4", "5", "6", "7", "8", "9">>
DigitSet == {Digits[i] : i \in DOMAIN Digits}
DigitValue(c) == (CHOOSE i \in DOMAIN Digits : Digits[i] = c) - 1

\* The characters of the strings of the model.
Chars(s) ==
    CASE s = "timestamp" -> <<"t", "i", "m", "e", "s", "t", "a", "m", "p">>
      [] s = "commit" -> <<"c", "o", "m", "m", "i", "t">>
      [] s = "branch" -> <<"b", "r", "a", "n", "c", "h">>
      [] s = "scores" -> <<"s", "c", "o", "r", "e", "s">>
      [] s = "metrics" -> <<"m", "e", "t", "r", "i", "c", "s">>
      [] s = "performance" -> 
            <<"p", "e", "r", "f", "o",
              "r", "m", "a", "n", "c", "e">>
      [] s = "accessibility" -> 
            <<"a", "c", "c", "e", "s", "s",
              "i", "b", "i", "l", "i", "t", "y">>
      [] s = "best-practices" -> 
            <<"b", "e", "s", "t", "-", "p", "r",
              "a", "c", "t", "i", "c", "e", "s">>
      [] s = "seo" -> <<"s", "e", "o">>
      [] s = "first-contentful-paint" -> 
            <<"f", "i", "r", "s", "t", "-", "c", "o", "n", "t", "e",
              "n", "t", "f", "u", "l", "-", "p", "a", "i", "n", "t">>
      [] s = "largest-contentful-paint" -> 
            <<"l", "a", "r", "g", "e", "s", "t", "-", "c", "o", "n", "t",
              "e", "n", "t", "f", "u", "l", "-", "p", "a", "i", "n", "t">>
      [] s = "first-input-delay" -> 
            <<"f", "i", "r", "s", "t", "-", "i", "n",
              "p", "u", "t", "-", "d", "e", "l", "a", "y">>
      [] s = "cumulative-layout-shift" -> 
            <<"c", "u", "m", "u", "l", "a", "t", "i", "v", "e", "-",
              "l", "a", "y", "o", "u", "t", "-", "s", "h", "i", "f", "t">>
      [] s = "speed-index" -> 
            <<"s", "p", "e", "e", "d",
              "-", "i", "n", "d", "e", "x">>
      [] s = "interactive" -> 
            <<"i", "n", "t", "e", "r",
              "a", "c", "t", "i", "v", "e">>
      [] s = "local" -> <<"l", "o", "c", "a", "l">>
      [] s = "4f2a9c1" -> <<"4", "f", "2", "a", "9", "c", "1">>
      [] s = "main" -> <<"m", "a", "i", "n">>
      [] OTHER -> <<>>

\* String(n) for an integer n >= 0, and the same padded with zeros to a
\* width.
RECURSIVE Decimal(_)
Decimal(n) ==
    IF n < 10 THEN <<Digits[n + 1]>>
    ELSE Decimal(n \div 10) \o <<Digits[(n % 10) + 1]>>

Zeros(n) == [i \in 1..n |-> "0"]
Padded(n, width) == Zeros(width - Len(Decimal(n))) \o Decimal(n)

\* Year, month and day of the day that is z days after 1970-01-01, in the
\* proleptic Gregorian calendar.
CivilFromDays(z) ==
    LET shifted == z + 719468
        era == shifted \div 146097
        doe == shifted % 146097
        yoe == (doe - doe \div 1460 + doe \div 36524 - doe \div 146096) \div 365
        doy == doe - (365 * yoe + yoe \div 4 - yoe \div 100)
        mp == (5 * doy + 2) \div 153
        month == IF mp < 10 THEN mp + 3 ELSE mp - 9
    IN  [year |-> yoe + era * 400 + (IF month <= 2 THEN 1 ELSE 0),
         month |-> month,
         day |-> doy - (153 * mp + 2) \div 5 + 1]

\* new Date().toISOString() for the instant t seconds after
\* 1970-01-01T00:00:00Z (the clock of the model ticks in whole seconds):
\* YYYY-MM-DDTHH:mm:ss.000Z, 24 characters.
toISOString(t) ==
    LET date == CivilFromDays(t \div 86400)
        secs == t % 86400
    IN  Padded(date.year, 4) \o <<"-">> \o Padded(date.month, 2) \o <<"-">>
          \o Padded(date.day, 2) \o <<"T">> \o Padded(secs \div 3600, 2)
          \o <<":">> \o Padded((secs % 3600) \div 60, 2) \o <<":">>
          \o Padded(secs % 60, 2) \o <<".", "0", "0", "0", "Z">>

\* --- JSON values
\* A value is a string, a number or a literal (s is its text: the
\* characters of the string, the number as JSON.stringify writes it, or
\* null, true, false), or an array or an object (m is its members in
\* order, each a key and a value; the key of an array member is empty).
JString(s) == [k |-> "string", s |-> s, m |-> <<>>]
JNumber(s) == [k |-> "number", s |-> s, m |-> <<>>]
JLiteral(s) == [k |-> "literal", s |-> s, m |-> <<>>]
JNull == JLiteral(<<"n", "u", "l", "l">>)
JMember(key, val) == [key |-> key, val |-> val]
JObject(members) == [k |-> "object", s |-> <<>>, m |-> members]
JArray(items) ==
    [k |-> "array", s |-> <<>>,
     m |-> [i \in DOMAIN items |-> JMember(<<>>, items[i])]]
ItemsOf(v) == [i \in DOMAIN v.m |-> v.m[i].val]

\* A number of h hundredths as JSON.stringify writes it: 90000 is 900,
\* 5 is 0.05, 150 is 1.5.
HundredthsText(h) ==
    LET frac == h % 100
    IN  Decimal(h \div 100) \o
          (IF frac = 0 THEN <<>>
           ELSE IF frac % 10 = 0 THEN <<".", Digits[frac \div 10 + 1]>>
           ELSE <<".", Digits[frac \div 10 + 1], Digits[(frac % 10) + 1]>>)

\* The keys of order that the object f has, in that order.
KeysIn(order, f) == SelectSeq(order, LAMBDA key : key \in DOMAIN f)

\* A history record as a value: the keys of historyData in the order of
\* lines 199-203, those of scores and metrics in the order of lines 38-52;
\* the timestamp is a string, a score a whole number or null, a metric a
\* number.
ScoreValue(x) == IF x = Null THEN JNull ELSE JNumber(Decimal(x))
MetricValue(x) == JNumber(HundredthsText(x))
EntryValue(rec) ==
    JObject(<<JMember(Chars("timestamp"), JString(toISOString(rec.timestamp))),
              JMember(Chars("commit"), JString(Chars(rec.commit))),
              JMember(Chars("branch"), JString(Chars(rec.branch))),
              JMember(Chars("scores"),
                      JObject([i \in DOMAIN KeysIn(Categories, rec.scores) |->
                                  LET key == KeysIn(Categories, rec.scores)[i]
                                  IN  JMember(Chars(key), ScoreValue(rec.scores[key]))])),
              JMember(Chars("metrics"),
                      JObject([i \in DOMAIN KeysIn(MetricNames, rec.metrics) |->
                                  LET key == KeysIn(MetricNames, rec.metrics)[i]
                                  IN  JMember(Chars(key), MetricValue(rec.metrics[key]))]))>>)

\* --- JSON.stringify(value, null, 2)
Indent(depth) == [i \in 1..(2 * depth) |-> " "]

RECURSIVE Stringify(_, _), StringifyMembers(_, _, _)
\* The members of v from the i-th on, each on a line of its own.
StringifyMembers(v, i, depth) ==
    IF i > Len(v.m) THEN <<>>
    ELSE <<LF>> \o Indent(depth)
           \o (IF v.k = "object"
               THEN <<Quote>> \o v.m[i].key \o <<Quote, ":", " ">>
               ELSE <<>>)
           \o Stringify(v.m[i].val, depth)
           \o (IF i < Len(v.m) THEN <<",">> ELSE <<>>)
           \o StringifyMembers(v, i + 1, depth)

\* The text of v when it is written at nesting depth depth.  The strings
\* of the model hold no character that is written escaped.
Stringify(v, depth) ==
    CASE v.k = "string" -> <<Quote>> \o v.s \o <<Quote>>
      [] v.k \in {"number", "literal"} -> v.s
      [] v.k = "array" ->
            IF v.m = <<>> THEN <<"[", "]">>
            ELSE <<"[">> \o StringifyMembers(v, 1, depth + 1)
                   \o <<LF>> \o Indent(depth) \o <<"]">>
      [] OTHER ->
            IF v.m = <<>> THEN <<"{", "}">>
            ELSE <<"{">> \o StringifyMembers(v, 1, depth + 1)
                   \o <<LF>> \o Indent(depth) \o <<"}">>

\* JSON.stringify(history, null, 2) for the array of the values in items.
DocumentOf(items) == Stringify(JArray(items), 0)

\* --- JSON.parse
Whitespace == {" ", LF, "\t", "\r"}
\* What ends the characters of a string: the closing quote, or a character
\* a string cannot hold as it is (a backslash starts an escape, which the
\* texts here never hold and which is taken as an error).
StringStops == {Quote, "\\", LF, "\t", "\r"}
NumberChars == DigitSet \cup {"-", "+", ".", "e", "E"}

\* The first index from i on whose character is not in set (Len(T) + 1
\* when there is none).
Skip(T, i, set) ==
    CHOOSE j \in i..(Len(T) + 1) :
        /\ j > Len(T) \/ T[j] \notin set
        /\ \A n \in i..(j - 1) : T[n] \in set

\* The first index from i on whose character is in set.
Find(T, i, set) ==
    CHOOSE j \in i..(Len(T) + 1) :
        /\ j > Len(T) \/ T[j] \in set
        /\ \A n \in i..(j - 1) : T[n] \notin set

Failed == [ok |-> FALSE, at |-> 0, v |-> JNull]
Parsed(at, v) == [ok |-> TRUE, at |-> at, v |-> v]

\* The value of a run of digits.
RECURSIVE DigitsValue(_)
DigitsValue(ds) ==
    IF ds = <<>> THEN 0
    ELSE 10 * DigitsValue(SubSeq(ds, 1, Len(ds) - 1)) + DigitValue(ds[Len(ds)])

\* Number.prototype.toString for the number whose significant digits are
\* ds (no zero at either end, not empty) and whose decimal point is after
\* the first n of them (n <= 0: -n zeros between the point and ds).
NumberToString(ds, n) ==
    LET len == Len(ds)
        expo == n - 1
    IN  IF len <= n /\ n <= 21 THEN ds \o Zeros(n - len)
        ELSE IF 0 < n /\ n <= 21
        THEN SubSeq(ds, 1, n) \o <<".">> \o SubSeq(ds, n + 1, len)
        ELSE IF -6 < n /\ n <= 0 THEN <<"0", ".">> \o Zeros(0 - n) \o ds
        ELSE <<ds[1]>> \o (IF len > 1 THEN <<".">> \o Tail(ds) ELSE <<>>)
               \o <<"e">> \o (IF expo < 0 THEN <<"-">> ELSE <<"+">>)
               \o Decimal(IF expo < 0 THEN 0 - expo ELSE expo)

\* A JSON number token: [ok, s], s being the number as JSON.stringify
\* writes it back.  The grammar is -? (0 | [1-9][0-9]*) (. [0-9]+)?
\* ([eE] [+-]? [0-9]+)?; numbers of more than 15 significant digits, which
\* a double does not hold exactly, do not occur.
NumberToken(tok) ==
    LET bad == [ok |-> FALSE, s |-> <<>>]
        len == Len(tok)
        neg == len > 0 /\ tok[1] = "-"
        i0 == IF neg THEN 2 ELSE 1
        i1 == Skip(tok, i0, DigitSet)
        int == SubSeq(tok, i0, i1 - 1)
        hasFrac == i1 <= len /\ tok[i1] = "."
        f1 == IF hasFrac THEN Skip(tok, i1 + 1, DigitSet) ELSE i1
        frac == IF hasFrac THEN SubSeq(tok, i1 + 1, f1 - 1) ELSE <<>>
        hasExp == f1 <= len /\ tok[f1] \in {"e", "E"}
        signed == hasExp /\ f1 + 1 <= len /\ tok[f1 + 1] \in {"+", "-"}
        e0 == IF signed THEN f1 + 2 ELSE f1 + 1
        e1 == IF hasExp THEN Skip(tok, e0, DigitSet) ELSE f1
        expDigits == IF hasExp THEN SubSeq(tok, e0, e1 - 1) ELSE <<>>
        expo == IF signed /\ tok[f1 + 1] = "-" THEN 0 - DigitsValue(expDigits)
                ELSE DigitsValue(expDigits)
        all == int \o frac
        first == Skip(all, 1, {"0"})
        last == CHOOSE j \in 0..Len(all) :
                    /\ j = 0 \/ all[j] # "0"
                    /\ \A n \in (j + 1)..Len(all) : all[n] = "0"
    IN  IF \/ int = <<>>
           \/ Len(int) > 1 /\ int[1] = "0"
           \/ hasFrac /\ frac = <<>>
           \/ hasExp /\ expDigits = <<>>
           \/ e1 <= len
        THEN bad
        ELSE IF first > Len(all) THEN [ok |-> TRUE, s |-> <<"0">>]
        ELSE [ok |-> TRUE,
              s |-> (IF neg THEN <<"-">> ELSE <<>>)
                      \o NumberToString(SubSeq(all, first, last),
                                        Len(int) - (first - 1) + expo)]

\* The text T holds the characters of word from index i on.
HasWord(T, i, word) ==
    /\ i + Len(word) - 1 <= Len(T)
    /\ SubSeq(T, i, i + Len(word) - 1) = word

\* obj[key] = val on the members of an object being built: a key that is
\* there already keeps its place and takes the new value.  (A key that is
\* an array index would go before the others; the keys of a history file
\* are names.)
PutMember(members, key, val) ==
    IF \E i \in DOMAIN members : members[i].key = key
    THEN [i \in DOMAIN members |->
             IF members[i].key = key THEN JMember(key, val) ELSE members[i]]
    ELSE Append(members, JMember(key, val))

RECURSIVE ParseValue(_, _), ParseElements(_, _, _), ParseMembers(_, _, _)
\* The value that starts at index from of T, after whitespace: [ok, at, v],
\* at being the index after the value.
ParseValue(T, from) ==
    LET i == Skip(T, from, Whitespace)
    IN  IF i > Len(T) THEN Failed
        ELSE IF T[i] = Quote
        THEN LET j == Find(T, i + 1, StringStops)
             IN  IF j <= Len(T) /\ T[j] = Quote
                 THEN Parsed(j + 1, JString(SubSeq(T, i + 1, j - 1)))
                 ELSE Failed
        ELSE IF T[i] = "["
        THEN LET j == Skip(T, i + 1, Whitespace)
             IN  IF j <= Len(T) /\ T[j] = "]" THEN Parsed(j + 1, JArray(<<>>))
                 ELSE ParseElements(T, i + 1, <<>>)
        ELSE IF T[i] = "{"
        THEN LET j == Skip(T, i + 1, Whitespace)
             IN  IF j <= Len(T) /\ T[j] = "}" THEN Parsed(j + 1, JObject(<<>>))
                 ELSE ParseMembers(T, i + 1, <<>>)
        ELSE IF T[i] \in DigitSet \cup {"-"}
        THEN LET j == Skip(T, i, NumberChars)
                 number == NumberToken(SubSeq(T, i, j - 1))
             IN  IF number.ok THEN Parsed(j, JNumber(number.s)) ELSE Failed
        ELSE IF HasWord(T, i, <<"n", "u", "l", "l">>)
        THEN Parsed(i + 4, JNull)
        ELSE IF HasWord(T, i, <<"t", "r", "u", "e">>)
        THEN Parsed(i + 4, JLiteral(<<"t", "r", "u", "e">>))
        ELSE IF HasWord(T, i, <<"f", "a", "l", "s", "e">>)
        THEN Parsed(i + 5, JLiteral(<<"f", "a", "l", "s", "e">>))
        ELSE Failed

\* The elements of an array from index from on, items being those before.
ParseElements(T, from, items) ==
    LET element == ParseValue(T, from)
        i == Skip(T, element.at, Whitespace)
    IN  IF ~element.ok \/ i > Len(T) THEN Failed
        ELSE IF T[i] = ","
        THEN ParseElements(T, i + 1, Append(items, element.v))
        ELSE IF T[i] = "]" THEN Parsed(i + 1, JArray(Append(items, element.v)))
        ELSE Failed

\* The members of an object from index from on, members being those before.
ParseMembers(T, from, members) ==
    LET key == ParseValue(T, from)
        colon == Skip(T, key.at, Whitespace)
        val == ParseValue(T, colon + 1)
        i == Skip(T, val.at, Whitespace)
    IN  IF ~key.ok \/ key.v.k # "string" \/ colon > Len(T) THEN Failed
        ELSE IF T[colon] # ":" THEN Failed
        ELSE IF ~val.ok \/ i > Len(T) THEN Failed
        ELSE IF T[i] = ","
        THEN ParseMembers(T, i + 1, PutMember(members, key.v.s, val.v))
        ELSE IF T[i] = "}"
        THEN Parsed(i + 1, JObject(PutMember(members, key.v.s, val.v)))
        ELSE Failed

\* JSON.parse(T): [ok, v]; ok is FALSE when it throws.
JSONParse(T) ==
    LET value == ParseValue(T, 1)
    IN  IF value.ok /\ Skip(T, value.at, Whitespace) > Len(T)
        THEN [ok |-> TRUE, v |-> value.v]
        ELSE [ok |-> FALSE, v |-> JNull]

\* ------------------------------------------------------------- two invocations at once
\* Two processes run performance-check.js on the same ./reports at the same
\* time.  Each is followed through savePerformanceHistory, whose
\* file-system calls interleave with the other's: the read() calls of
\* readFileSync, which takes the file ChunkBytes at a time until a read()
\* returns nothing, and the two halves of writeFileSync, which opens the
\* file truncating it and then writes the document from offset 0.  The
\* history file is here the text it holds: state is "absent" or "present",
\* bytes the characters; the list an invocation works on is a sequence of
\* JSON values.
Invocations == {1, 2}

MkLogFile(state, bytes) == [state |-> state, bytes |-> bytes]

MkWorker(position, e, now, got, history, overwrote) ==
    [pc |-> position, env |-> e, clock |-> now, got |-> got,
     history |-> history, overwrote |-> overwrote]

\* historyData of invocation p, and the value JSON.stringify sees of it.
WorkerRecord(p) ==
    MkHistoryData(workers[p].clock, workers[p].env,
                  ExtractScores(report), ExtractMetrics(report))
RecordValue(p) == EntryValue(ToJSON(WorkerRecord(p)))

\* Buffer of the read loop of readFileSync(path, 'utf8').
ChunkBytes == 8192

\* One read() of a reader that has taken got so far: at most ChunkBytes
\* bytes of what the file holds now, from the offset the reader is at.
ReadChunk(got, file) ==
    SubSeq(file.bytes, Len(got) + 1, Min(Len(got) + ChunkBytes, Len(file.bytes)))

\* The file after a writer that opened it earlier writes its document from
\* offset 0: the document, followed by what the file held beyond its length
\* (nothing, unless another writer wrote a longer document since the open).
Overwritten(file, document) ==
    MkLogFile("present",
              document \o SubSeq(file.bytes, Len(document) + 1, Len(file.bytes)))

raceFrame ==
    <<report, htmlReport, reportsDir, buildDir, env, faults, clock, runs,
      thresholds, previous, locals, pc, console, exits, imageVars>>

\* Lines 207-219 for an invocation w that has taken w.got so far, one
\* read() of readFileSync at a time.  The first is preceded by existsSync
\* (without a file the list is empty and nothing is read); a read() that
\* returns nothing ends readFileSync, and JSON.parse, push and slice
\* follow, or the catch of line 230, which drops the record: JSON.parse
\* throws, or what it gives is no array and has no push.
AfterRead(w, file, record) ==
    LET chunk == ReadChunk(w.got, file)
        parsed == JSONParse(w.got)
    IN  IF file.state = "absent"
        THEN [w EXCEPT !.pc = "pushed", !.history = AppendCapped(<<>>, record)]
        ELSE IF chunk # <<>>
        THEN [w EXCEPT !.pc = "reading", !.got = w.got \o chunk]
        ELSE IF parsed.ok /\ parsed.v.k = "array"
        THEN [w EXCEPT !.pc = "pushed",
                       !.history = AppendCapped(ItemsOf(parsed.v), record)]
        ELSE [w EXCEPT !.pc = "dropped"]

ReadLog(p) ==
    /\ workers[p].pc \in {"evaluated", "reading"}
    /\ \E after \in {AfterRead(workers[p], historyFile, RecordValue(p))} :
          workers' = [workers EXCEPT ![p] = after]
    /\ UNCHANGED <<historyFile, writers, raceFrame>>

\* Line 227, first half: writeFileSync opens the file with O_TRUNC.
OpenLog(p) ==
    /\ workers[p].pc = "pushed"
    /\ historyFile' = MkLogFile("present", <<>>)
    /\ workers' = [workers EXCEPT ![p].pc = "opened"]
    /\ UNCHANGED <<writers, raceFrame>>

\* Mutant: the file is opened for appending, the document goes after what
\* the file holds.
WriteLogAppends(p) ==
    /\ workers[p].pc = "opened"
    /\ historyFile' =
          MkLogFile("present",
                    historyFile.bytes \o DocumentOf(workers[p].history))
    /\ workers' = [workers EXCEPT ![p] =
          [@ EXCEPT !.pc = "done", !.overwrote = historyFile.bytes # <<>>]]
    /\ writers' = Append(writers, p)
    /\ UNCHANGED raceFrame

\* Line 227, second half: the document is written.
WriteLog(p) ==
    /\ workers[p].pc = "opened"
    /\ historyFile' = Overwritten(historyFile, DocumentOf(workers[p].history))
    /\ workers' = [workers EXCEPT ![p] =
          [@ EXCEPT !.pc = "done", !.overwrote = historyFile.bytes # <<>>]]
    /\ writers' = Append(writers, p)
    /\ UNCHANGED raceFrame

\* --- the logs the two invocations find
\* The text of a history file: a list is the document JSON.stringify
\* writes for it; "{" stands for a text JSON.parse throws on, "{}" for one
\* that is no array.
OnDisk(file) ==
    CASE file.state = "absent" -> MkLogFile("absent", <<>>)
      [] file.state = "malformed" -> MkLogFile("present", <<"{">>)
      [] file.state = "nonlist" -> MkLogFile("present", <<"{", "}">>)
      [] OTHER ->
            MkLogFile("present",
                      DocumentOf([i \in DOMAIN file.entries |->
                                     EntryValue(file.entries[i])]))

\* A log written by one run a day, each a second later in the day than the
\* one before, the first on 2026-08-24: its 38th entry is of 30 September,
\* its 39th of 1 October.
DaySeconds == 24 * 60 * 60
FirstDay == 20688 * DaySeconds
DailyStamp(i) == FirstDay + i * (DaySeconds + 1)
DailyLog(n) == [i \in 1..n |-> [OldEntry(i) EXCEPT !.timestamp = DailyStamp(i)]]

\* A log whose runs were by turns local ones and ones of a CI job, whose
\* records are longer.
MixedLog(n) ==
    [i \in 1..n |->
        IF i % 2 = 0 THEN OldEntry(i)
        ELSE [OldEntry(i) EXCEPT !.commit = "4f2a9c1", !.branch = "main"]]

\* A history file, the time of the last record in it, and the environments
\* of the two invocations: both local, both of a CI job, or one of each;
\* with the daily and the mixed log, a local one and one of a CI job.
RaceStarts ==
    {[file |-> f, last |-> HistoryCap, envs |-> [Invocations -> CoreEnvs]] :
        f \in HistoryFiles}
      \cup {[file |-> MkHistoryFile("list", log.entries), last |-> log.last,
             envs |-> {[p \in Invocations |->
                          IF p = 1 THEN MkEnv(Unset, Unset)
                          ELSE MkEnv("4f2a9c1", "main")]}] :
            log \in {[entries |-> DailyLog(HistoryCap),
                      last |-> DailyStamp(HistoryCap)],
                     [entries |-> MixedLog(HistoryCap), last |-> HistoryCap]}}

\* Both invocations have evaluated the same report, one a second after
\* the other.
InitRace ==
    /\ thresholds = THRESHOLDS
    /\ report = MkReport("ok", BaseCat, BaseAud)
    /\ buildDir = MkBuildDir("absent", <<>>)
    /\ env = MkEnv(Unset, Unset)
    /\ faults = {}
    /\ FirstRun
    /\ ImageScriptIdle
    /\ \E start \in RaceStarts :
          /\ historyFile = OnDisk(start.file)
          /\ workers \in
                {[p \in Invocations |->
                     MkWorker("evaluated", e[p], start.last + p, <<>>, <<>>, FALSE)] :
                 e \in start.envs}
    /\ writers = <<>>

NextRace ==
    \E p \in Invocations :
        \/ ReadLog(p)
        \/ OpenLog(p)
        \/ WriteLog(p)

SpecRace == InitRace /\ [][NextRace]_vars

\* ------------------------------------------------------------- properties
\* The running invocation read and evaluated its report.
Evaluated == Len(console) > 0 /\ console[1] = "scores"

Said(line) == \E i \in DOMAIN console : console[i] = line

\* The history write of the running invocation succeeded.
HistoryUpdated == Said("history-updated")

\* savePerformanceHistory has returned in the running invocation.
HistoryStepDone == Evaluated /\ pc \in {"history-done", "bundle-done", "exited"}

\* The report has all four fractional scores at 0.9 or more and all six
\* metrics at or below their thresholds.
AllWithinThresholds(r) ==
    /\ r.kind = "ok"
    /\ \A c \in CategorySet : r.cat[c] >= 900
    /\ \A m \in MetricSet :
          r.aud[AuditOf(m)] >= 0 /\ r.aud[AuditOf(m)] <= THRESHOLDS[m]

\* The record of item k in the results, when there is exactly one.
RecordsOf(k) == {i \in DOMAIN results : results[i].category = k}

\* C1 as stated: whatever the state of the history file, the build directory
\* and the report output location, an invocation ends with status 0 when the
\* aggregate outcome is passed, and with status 1 when it is failed or a
\* fatal precondition or parse error occurred.
C1_ExitFollowsAggregateOnly ==
    pc = "exited" =>
        exits = <<IF Evaluated /\ passed THEN 0 ELSE 1>>

\* C1, amended: an invocation ends with status 0 when the aggregate outcome
\* is passed and the static report document was written, and with status 1
\* when the aggregate is failed, a fatal precondition or parse error
\* occurred, or writing the document failed; a report with all scores at 90
\* or more and all metrics within their thresholds ends with status 0 when
\* the document can be written.
C1_ExitStatus ==
    pc = "exited" =>
        /\ exits = <<IF Evaluated /\ passed /\ Said("report-generated")
                     THEN 0 ELSE 1>>
        /\ (AllWithinThresholds(report) /\ ~HtmlWriteThrows(faults))
              => exits = <<0>>
        /\ (Evaluated /\ ~passed) => exits = <<1>>
        /\ ~Evaluated => exits = <<1>>

C1_Witness ==
    /\ pc = "exited"
    /\ AllWithinThresholds(report)
    /\ \E c \in CategorySet : report.cat[c] = 900
    /\ exits = <<0>>

\* C2: for each category and every numeric fractional score s, the record
\* is 'passed' iff s * 100 rounded to the nearest integer is at least the
\* threshold (90); a rounded score equal to the threshold passes, and a
\* failed score sets the aggregate to failed.
C2_ScoreOutcome ==
    Evaluated =>
        \A c \in CategorySet :
            IsNumber(report.cat[c]) =>
                /\ Cardinality(RecordsOf(c)) = 1
                /\ \A i \in RecordsOf(c) :
                      /\ results[i].type = "score"
                      /\ results[i].status \in {"passed", "failed"}
                      /\ results[i].status = "passed"
                            <=> (report.cat[c] + 5) \div 10 >= 90
                      /\ results[i].value = 90 => results[i].status = "passed"
                      /\ results[i].status = "failed" => ~passed

C2_Witness ==
    /\ Evaluated
    /\ \E i, j \in DOMAIN results :
          /\ results[i].type = "score" /\ results[j].type = "score"
          /\ results[i].value = 90 /\ results[i].status = "passed"
          /\ report.cat[results[i].category] = 895
          /\ results[j].value = 89 /\ results[j].status = "failed"

\* C3: for each metric and every numeric value v, the record is 'passed'
\* iff v is at most the metric's threshold; v equal to the threshold
\* passes, and a layout shift of 0.15 against 0.1 is 'failed'.
C3_MetricOutcome ==
    Evaluated =>
        \A m \in MetricSet :
            LET v == report.aud[AuditOf(m)]
            IN  IsNumber(v) =>
                /\ Cardinality(RecordsOf(m)) = 1
                /\ \A i \in RecordsOf(m) :
                      /\ results[i].type = "metric"
                      /\ results[i].status \in {"passed", "failed"}
                      /\ results[i].status = "passed" <=> v <= THRESHOLDS[m]
                      /\ (m = "cumulative-layout-shift" /\ v = 15)
                            => results[i].status = "failed"

C3_Witness ==
    /\ Evaluated
    /\ \E i, j \in DOMAIN results :
          /\ results[i].type = "metric" /\ results[j].type = "metric"
          /\ report.aud[AuditOf(results[i].category)]
                = THRESHOLDS[results[i].category]
          /\ results[i].status = "passed"
          /\ report.aud[AuditOf(results[j].category)]
                > THRESHOLDS[results[j].category]
          /\ results[j].status = "failed"

\* C4: at the pass/fail branch the aggregate is failed iff some record of
\* the results is 'failed', and passed iff the results are non-empty and
\* every record is 'passed'.
C4_AggregateOutcome ==
    pc = "bundle-done" =>
        /\ ~passed <=> \E i \in DOMAIN results : results[i].status = "failed"
        /\ passed <=> /\ results # <<>>
                      /\ \A i \in DOMAIN results : results[i].status = "passed"

C4_Witness ==
    /\ pc = "bundle-done"
    /\ ~passed
    /\ \E i \in DOMAIN results :
          results[i].type = "metric" /\ results[i].status = "failed"
    /\ \A i \in DOMAIN results :
          results[i].type = "score" => results[i].status = "passed"

\* The log an append to log of rec must leave: the last min(n + 1, 50)
\* elements of log followed by rec.

ExpectedLog(log, rec) ==
    LET all == Append(log, rec)
        k == Min(Len(log) + 1, 50)
    IN  [i \in 1..k |-> all[Len(all) - k + i]]

\* C5: after a run whose history write succeeded, the persisted log has
\* length min(n + 1, 50), n being the length of the log read, and is the
\* last min(n + 1, 50) elements of the old log followed by the new record;
\* with a full log of 50 the entry that was at index 0 is gone.
C5_HistoryCapped ==
    (HistoryStepDone /\ HistoryUpdated) =>
        /\ historyFile.state = "list"
        /\ Len(historyFile.entries) = Min(Len(logRead) + 1, 50)
        /\ Len(historyFile.entries) <= 50
        /\ historyFile.entries = ExpectedLog(logRead, ToJSON(historyData[1]))
        /\ Len(logRead) = 50 =>
              \A i \in DOMAIN historyFile.entries :
                  historyFile.entries[i] # logRead[1]

C5_Witness ==
    /\ HistoryStepDone /\ HistoryUpdated
    /\ Len(logRead) = 50
    /\ runs = 2
    /\ Len(historyFile.entries) = 50
    /\ historyFile.entries[1] = logRead[2]

\* The aggregate outcome and the exit status a report gives, computed from
\* the report and the outcome of the document write alone.
GatePassed(r) == EvalPassed(ExtractScores(r), ExtractMetrics(r))
GateExit(r, fs) == IF GatePassed(r) /\ ~HtmlWriteThrows(fs) THEN 0 ELSE 1

\* C6: a failure of the history step (unreadable file, malformed JSON,
\* non-list content, write error) is not fatal: the run goes on to the
\* bundle-size check and the report generation, and its aggregate outcome
\* and exit status are those the report gives when the history step
\* succeeds.
C6_HistoryFailureNotFatal ==
    (HistoryStepDone /\ ~HistoryUpdated) =>
        /\ Said("history-warning")
        /\ passed = GatePassed(report)
        /\ pc = "history-done" => exits = <<>>
        /\ pc = "exited" =>
              /\ bundle.state # "none"
              /\ Said("all-passed") \/ Said("checks-failed")
              /\ Said("report-generated") \/ HtmlWriteThrows(faults)
              /\ exits = <<GateExit(report, faults)>>

C6_Witness ==
    /\ pc = "exited"
    /\ Said("history-warning")
    /\ historyFile.state = "nonlist"
    /\ Said("report-generated")
    /\ exits = <<0>>

\* C7: when the Lighthouse report does not exist the process ends with
\* status 1 at once: no history entry is appended, the bundle-size check
\* does not run and no report document is written.
C7_MissingReportFatal ==
    report.kind = "missing" =>
        /\ pc \in {"start", "exited"}
        /\ histAttempts = 0
        /\ historyFile \in HistoryFiles
        /\ bundle = NoBundle
        /\ htmlReport = NoDocument
        /\ pc = "exited" => exits = <<1>> /\ console = <<"report-not-found">>

C7_Witness ==
    /\ report.kind = "missing"
    /\ pc = "exited"
    /\ runs = 2
    /\ historyFile.state = "list"
    /\ Len(historyFile.entries) = HistoryCap - 1

\* Some expected field of the report is missing, or the report does not
\* parse.
ReportDefective(r) ==
    \/ r.kind \in {"malformed", "nolhr", "nocategories", "noaudits"}
    \/ /\ r.kind = "ok"
       /\ \/ \E c \in CategorySet : r.cat[c] \in {Absent, Undefined}
          \/ \E a \in AuditSet : r.aud[a] \in {Absent, Undefined}

\* C8: a report that cannot be parsed, or in which an expected field is
\* missing (lhr, a category, a category's score, an audit, an audit's
\* numericValue), makes the run end with a non-zero status without any
\* partial or degraded evaluation.
C8_DefectiveReportFatal ==
    (ReportDefective(report) /\ pc = "exited") =>
        /\ exits = <<1>>
        /\ results = <<>>
        /\ histAttempts = 0

\* C9: in every run that evaluated its report, passed or failed, the
\* history append is attempted exactly once; when it succeeds the last
\* element of the persisted log is this run's record, with this run's
\* scores and metrics, and the document holds the whole list.
C9_HistoryAppendedOnce ==
    /\ pc \in {"start", "evaluated"} => histAttempts = 0
    /\ HistoryStepDone => histAttempts = 1
    /\ (HistoryStepDone /\ HistoryUpdated) =>
          LET log == historyFile.entries
              rec == historyData[1]
          IN  /\ historyFile.state = "list"
              /\ Len(log) >= 1
              /\ rec.scores = scores /\ rec.metrics = metrics
              /\ log[Len(log)] = ToJSON(rec)
              /\ \A c \in CategorySet :
                    IsNumber(scores[c]) => log[Len(log)].scores[c] = scores[c]
              /\ \A m \in MetricSet :
                    IsNumber(metrics[m]) => log[Len(log)].metrics[m] = metrics[m]
              /\ Len(log) - 1 = Min(Len(logRead), HistoryCap - 1)
              /\ \A i \in 1..(Len(log) - 1) :
                    log[i] = logRead[Len(logRead) - (Len(log) - 1) + i]

C9_Witness ==
    /\ pc = "exited"
    /\ ~passed
    /\ HistoryUpdated
    /\ histAttempts = 1
    /\ Len(logRead) = 1
    /\ Len(historyFile.entries) = 2

\* C10: the bundle-size sub-check never changes the gate: the aggregate
\* outcome and the exit status are those the report gives, whatever the
\* build directory holds; when the directory is absent the sub-check warns,
\* is skipped, and the run continues.
C10_BundleNeverGates ==
    (Evaluated /\ pc \in {"bundle-done", "exited"}) =>
        /\ passed = GatePassed(report)
        /\ pc = "bundle-done" => exits = <<>>
        /\ pc = "exited" => exits = <<GateExit(report, faults)>>
        /\ buildDir.state = "absent" => bundle.state = "skipped"
        /\ buildDir.state = "unreadable" => bundle.state = "error"
        /\ buildDir.state = "dir" => bundle.state = "analyzed"

C10_Witness ==
    /\ pc = "exited"
    /\ bundle.state = "analyzed"
    /\ ~bundle.totalOk
    /\ \E i \in DOMAIN bundle.files : ~bundle.files[i].ok
    /\ passed
    /\ exits = <<0>>

\* C11: in every run that evaluated its report the steps come in this
\* order: the evaluation of all scores and metrics, the history append, the
\* bundle-size sub-check, the generation of the report document, the exit;
\* the generation is attempted in the passed and in the failed branch,
\* after the bundle-size sub-check and before the exit.
HistoryLines == {"history-updated", "history-warning"}
BundleLines == {"bundle-skipped", "bundle-error", "bundle-analyzed"}

C11_StepOrder ==
    Evaluated =>
        /\ Len(console) >= 2 /\ console[2] = "metrics"
        /\ results # <<>>
        /\ pc \in {"evaluated", "history-done", "bundle-done", "exited"}
        /\ pc = "evaluated" =>
              /\ Len(console) = 2
              /\ histAttempts = 0 /\ bundle = NoBundle /\ exits = <<>>
        /\ pc = "history-done" =>
              /\ Len(console) = 3 /\ console[3] \in HistoryLines
              /\ histAttempts = 1 /\ bundle = NoBundle /\ exits = <<>>
        /\ pc = "bundle-done" =>
              /\ Len(console) = 4
              /\ console[3] \in HistoryLines /\ console[4] \in BundleLines
              /\ histAttempts = 1 /\ bundle # NoBundle /\ exits = <<>>
        /\ pc = "exited" =>
              /\ Len(console) = 6
              /\ console[3] \in HistoryLines /\ console[4] \in BundleLines
              /\ console[5] = IF passed THEN "all-passed" ELSE "checks-failed"
              /\ console[6] \in {"report-generated", "error-analyzing"}
              /\ console[6] = "report-generated" =>
                    htmlReport = WrittenDocument(results, scores, metrics)
              /\ histAttempts = 1 /\ bundle # NoBundle /\ Len(exits) = 1

C11_Witness ==
    /\ pc = "exited"
    /\ Evaluated
    /\ ~passed
    /\ console = <<"scores", "metrics", "history-updated", "bundle-analyzed",
                   "checks-failed", "report-generated">>

\* C12: evaluation is exhaustive: for every well-formed report, however
\* many items fail and wherever the first failure is, the results hold
\* exactly one record for each of the four scores and the six metrics (ten
\* records).
C12_Exhaustive ==
    Evaluated =>
        /\ Len(results) = 10
        /\ \A k \in CategorySet \cup MetricSet : Cardinality(RecordsOf(k)) = 1

C12_Witness ==
    /\ Evaluated
    /\ Len(results) = 10
    /\ results[1].status = "failed"
    /\ results[2].status = "failed"
    /\ results[10].status = "passed"

\* C13: the order of the results is fixed: the four category scores in
\* declaration order, then the six metrics in declaration order, whatever
\* the values and whichever items passed or failed.
DeclaredOrder ==
    <<"performance", "accessibility", "best-practices", "seo",
      "first-contentful-paint", "largest-contentful-paint",
      "first-input-delay", "cumulative-layout-shift", "speed-index",
      "interactive">>

C13_FixedOrder ==
    Evaluated =>
        /\ Len(results) = Len(DeclaredOrder)
        /\ \A i \in DOMAIN results :
              /\ results[i].category = DeclaredOrder[i]
              /\ results[i].type = IF i <= 4 THEN "score" ELSE "metric"
        /\ Len(marks) = Len(DeclaredOrder)
        /\ \A i \in DOMAIN marks : marks[i].category = DeclaredOrder[i]

C13_Witness ==
    /\ Evaluated
    /\ results[1].status = "passed" /\ results[1].category = "performance"
    /\ results[2].status = "failed" /\ results[2].category = "accessibility"
    /\ results[3].status = "passed"

\* C14: a second run on an unchanged report and environment computes the
\* same scores, metrics, results, aggregate outcome and exit status as the
\* run before it, whatever the history log holds, and the log gains one
\* entry per run: the two entries have the same scores, metrics, commit and
\* branch (their timestamps may differ).
C14_RerunSameEvaluation ==
    (previous.ran /\ pc # "start") =>
        /\ Evaluated <=> previous.evaluated
        /\ Evaluated =>
              /\ scores = previous.scores
              /\ metrics = previous.metrics
              /\ results = previous.results
              /\ passed = previous.passed
        /\ pc = "exited" => exits = previous.exits
        /\ (HistoryStepDone /\ HistoryUpdated /\ previous.updated) =>
              LET log == historyFile.entries
              IN  /\ Len(log) >= 2
                  /\ Len(log) = Min(Len(previous.logRead) + 2, 50)
                  /\ log[Len(log) - 1] = ToJSON(previous.historyData[1])
                  /\ log[Len(log)] = ToJSON(historyData[1])
                  /\ log[Len(log)].scores = log[Len(log) - 1].scores
                  /\ log[Len(log)].metrics = log[Len(log) - 1].metrics
                  /\ log[Len(log)].commit = log[Len(log) - 1].commit
                  /\ log[Len(log)].branch = log[Len(log) - 1].branch

C14_Witness ==
    /\ previous.ran /\ previous.updated /\ ~previous.passed
    /\ pc = "exited"
    /\ HistoryUpdated
    /\ exits = <<1>>
    /\ Len(previous.logRead) = 0
    /\ Len(historyFile.entries) = 2
    /\ historyFile.entries[1].timestamp # historyFile.entries[2].timestamp

\* C15 (under SpecTables): for any threshold table, a metric without a
\* threshold entry is skipped entirely: no record for it is added to the
\* results, no marker is printed for it, and whatever its value it leaves
\* the aggregate outcome to the items that were evaluated.
MarksOf(k) == {i \in DOMAIN marks : marks[i].category = k}

C15_NoThresholdSkipped ==
    Evaluated =>
        /\ \A m \in MetricSet :
              m \notin DOMAIN thresholds =>
                  RecordsOf(m) = {} /\ MarksOf(m) = {}
        /\ \A m \in MetricSet \cap DOMAIN thresholds :
              thresholds[m] # 0 => Cardinality(RecordsOf(m)) = 1
        /\ Len(results) <= 4 + Cardinality(MetricSet \cap DOMAIN thresholds)
        /\ passed <=> \A i \in DOMAIN results : results[i].status = "passed"
        /\ pc = "exited" => exits = <<IF passed THEN 0 ELSE 1>>

C15_Witness ==
    /\ pc = "exited"
    /\ Evaluated
    /\ "speed-index" \notin DOMAIN thresholds
    /\ "interactive" \in DOMAIN thresholds
    /\ report.aud["speed-index"] > THRESHOLDS["speed-index"]
    /\ Len(results) = 9
    /\ passed
    /\ exits = <<0>>

\* C16 as stated (under SpecScores): every ScoreSet value is the fractional
\* score times 100 rounded to the nearest integer with a value halfway
\* between two integers going up, so that 0.895 becomes 90.  Violated: the
\* score 0.285 becomes 28.
C16_HalfwayRoundsUp ==
    Evaluated =>
        \A c \in CategorySet :
            IsNumber(report.cat[c]) => scores[c] = (report.cat[c] + 5) \div 10

\* C16, amended (under SpecScores): every ScoreSet value of a score in
\* [0, 1] is an integer in 0..100 within half a point of the score times
\* 100; it is the nearest integer, a score ending in 5 thousandths going up,
\* except for 0.145, 0.285, 0.565 and 0.575, whose double product falls
\* below the half and which go down; 0.895 becomes 90 and passes against 90.
C16_RoundedDoubleProduct ==
    Evaluated =>
        \A c \in CategorySet :
            LET k == report.cat[c]
            IN  IsNumber(k) =>
                    /\ scores[c] \in 0..100
                    /\ 10 * scores[c] - k \in -5..5
                    /\ k \notin {145, 285, 565, 575} => scores[c] = (k + 5) \div 10
                    /\ k \in {145, 285, 565, 575} => scores[c] = (k - 5) \div 10
                    /\ k = 895 =>
                          /\ scores[c] = 90
                          /\ \A i \in RecordsOf(c) : results[i].status = "passed"

C16_Witness ==
    /\ pc = "exited"
    /\ Evaluated
    /\ report.cat["performance"] = 895
    /\ scores["performance"] = 90
    /\ thresholds["performance"] = 90
    /\ passed
    /\ exits = <<0>>

\* The record the running invocation appended to the history log.
AppendedRecord == historyFile.entries[Len(historyFile.entries)]

\* C17 as stated: the commit and branch of the appended record equal the
\* values of GITHUB_SHA and GITHUB_REF_NAME when they are set, and "local"
\* when unset.  Violated: a variable set to the empty string gives "local".
C17_EnvWhenSet ==
    (HistoryStepDone /\ HistoryUpdated) =>
        /\ AppendedRecord.commit =
              IF env.GITHUB_SHA = Unset THEN "local" ELSE env.GITHUB_SHA
        /\ AppendedRecord.branch =
              IF env.GITHUB_REF_NAME = Unset THEN "local" ELSE env.GITHUB_REF_NAME

\* C17, amended: the commit and branch of the appended record equal the
\* values of GITHUB_SHA and GITHUB_REF_NAME when these are set to a
\* non-empty string, and each is "local" when its variable is unset or
\* empty; the two fields are decided independently.
C17_EnvOrLocal ==
    (HistoryStepDone /\ HistoryUpdated) =>
        /\ Len(historyFile.entries) >= 1
        /\ AppendedRecord.commit = historyData[1].commit
        /\ AppendedRecord.branch = historyData[1].branch
        /\ AppendedRecord.commit =
              IF env.GITHUB_SHA \in {Unset, ""} THEN "local" ELSE env.GITHUB_SHA
        /\ AppendedRecord.branch =
              IF env.GITHUB_REF_NAME \in {Unset, ""} THEN "local"
              ELSE env.GITHUB_REF_NAME

C17_Witness ==
    /\ pc = "exited"
    /\ HistoryUpdated
    /\ env.GITHUB_SHA = ""
    /\ env.GITHUB_REF_NAME = "main"
    /\ AppendedRecord.commit = "local"
    /\ AppendedRecord.branch = "main"

\* C18: no step of a run, on any path, changes the Lighthouse report file
\* or the build directory; the history log changes only in
\* savePerformanceHistory, the report document (and the directory holding
\* both) only there and in the final step of checkPerformance.
C18_InputsNeverModified ==
    [][/\ report' = report
       /\ buildDir' = buildDir
       /\ historyFile' # historyFile => pc = "evaluated" /\ pc' = "history-done"
       /\ htmlReport' # htmlReport => pc = "bundle-done" /\ pc' = "exited"
       /\ reportsDir' # reportsDir => pc \in {"evaluated", "bundle-done"}]_vars

\* A run that scanned a build directory with files, rewrote the history log
\* and wrote the report document.
C18_Witness ==
    /\ pc = "exited"
    /\ HistoryUpdated
    /\ Said("bundle-analyzed")
    /\ Said("report-generated")
    /\ htmlReport # NoDocument
    /\ buildDir = MkBuildDir("dir", SmallBuild)
    /\ report.kind = "ok"

\* ------------------------------------------------------------- optimize-images.js, properties
\* processImage returned for the file; the body of the loop ran to its end
\* for the file; processImage got to its "Processing" line for the file.
NotThrown(imageFile) ==
    toolOutcome[imageFile].throws.at \in {"none", "statSync-original"}
BodyCompleted(imageFile) == toolOutcome[imageFile].throws.at = "none"
ProcessingPrinted(imageFile) == toolOutcome[imageFile].throws.at # "mkdirSync"
OriginalsOf(res) == [i \in DOMAIN res |-> res[i].original]
SaidImage(tag) == {imageConsole[i].n : i \in {j \in DOMAIN imageConsole : imageConsole[j].tag = tag}}

\* C19 (under SpecImages): an image whose processImage throws is reported
\* and skipped, and the loop goes on: at every point of the loop the results
\* are exactly the images handled so far whose processImage did not throw,
\* in discovery order, and the images reported as failed are those for which
\* the body of the loop threw (processImage, or the statSync of line 267
\* after the result was pushed); once at least one image was found the run
\* ends with the summary printed and the snippets file saved, holding one
\* snippet per result in the same order, and without calling process.exit.
C19_PerImageFailure ==
    /\ imagePc = "loop" =>
          /\ cursor \in 1..(Len(imageFiles) + 1)
          /\ OriginalsOf(imageResults) =
                SelectSeq(SubSeq(imageFiles, 1, cursor - 1), NotThrown)
          /\ SaidImage("failed") =
                {k \in 1..(cursor - 1) : ~BodyCompleted(imageFiles[k])}
          /\ SaidImage("processing") =
                {k \in 1..(cursor - 1) : ProcessingPrinted(imageFiles[k])}
    /\ (imagePc = "done" /\ Len(imageFiles) > 0) =>
          /\ cursor = Len(imageFiles) + 1
          /\ OriginalsOf(imageResults) = SelectSeq(imageFiles, NotThrown)
          /\ SaidImage("failed") =
                {k \in DOMAIN imageFiles : ~BodyCompleted(imageFiles[k])}
          /\ SaidImage("processing") =
                {k \in DOMAIN imageFiles : ProcessingPrinted(imageFiles[k])}
          /\ SaidImage("summary") = {Len(imageResults)}
          /\ outputDir.snippetsFile.state = "written"
          /\ Len(outputDir.snippetsFile.snippets) = Len(imageResults)
          /\ \A i \in DOMAIN imageResults :
                outputDir.snippetsFile.snippets[i].file = imageResults[i].original.name
          /\ imageExits = <<>>

\* Three images, the second of which throws in processImage, at the
\* statSync of its first WebP file: the first and the third are in the
\* results and in the snippets file, and the tool runs and files of the
\* second are left behind.
C19_Witness ==
    /\ imagePc = "done"
    /\ Len(imageFiles) = 3
    /\ NotThrown(imageFiles[1])
    /\ toolOutcome[imageFiles[2]].throws = ThrowAt("statSync-output", "webp", 320)
    /\ NotThrown(imageFiles[3])
    /\ Len(imageResults) = 2
    /\ imageResults[2].original = imageFiles[3]
    /\ SaidImage("failed") = {2}
    /\ SaidImage("processing") = {1, 2, 3}
    /\ MkInvocation("cwebp", imageFiles[2], 320) \in invoked
    /\ MkInvocation("cwebp", imageFiles[2], 640) \notin invoked
    /\ Len(outputDir.snippetsFile.snippets) = 2

\* One image for which the statSync of line 267 threw: it is reported as
\* failed and is in the results, the summary and the snippets file.
ReportedFailedAndProcessed ==
    /\ imagePc = "done"
    /\ Len(imageFiles) = 1
    /\ toolOutcome[imageFiles[1]].throws.at = "statSync-original"
    /\ SaidImage("failed") = {1}
    /\ Len(imageResults) = 1
    /\ SaidImage("summary") = {1}
    /\ Len(outputDir.snippetsFile.snippets) = 1

\* One image for which the statSync of line 181 threw for the first WebP
\* file: no result, six tool runs, the five resized files.
StoppedAtFirstConversion ==
    /\ imagePc = "done"
    /\ Len(imageFiles) = 1
    /\ toolOutcome[imageFiles[1]] =
          [AllSucceed EXCEPT !.throws = ThrowAt("statSync-output", "webp", 320)]
    /\ imageResults = <<>>
    /\ Cardinality(invoked) = 6
    /\ Cardinality(outputDir.variants) = 5

\* The sizes convert / cwebp / avifenc was run for on an input file, and the
\* sizes recorded for a format in a result.
AttemptedSizes(tool, inputFile) ==
    {size \in SizeSet : MkInvocation(tool, inputFile, size) \in invoked}
RecordedSizes(result, format) ==
    {result.responsive[format][i].size : i \in DOMAIN result.responsive[format]}

\* C20 (under SpecImages): for every image processImage returned a result
\* for, convert was run for each of the five sizes of CONFIG.sizes; cwebp and
\* avifenc were each run for exactly the sizes whose resize succeeded; the
\* sizes recorded for jpg are those whose resize succeeded and the sizes
\* recorded for webp and avif those whose resize and conversion both
\* succeeded, each once and in the order of CONFIG.sizes, with their files
\* in the output directory; when every tool succeeds all five sizes are
\* recorded for jpg, webp and avif.
C20_VariantsPerImage ==
    \A k \in DOMAIN imageResults :
        LET result == imageResults[k]
            out == toolOutcome[result.original]
        IN  /\ AttemptedSizes("convert", result.original) = SizeSet
            /\ SizeSet = {320, 640, 960, 1280, 1920}
            /\ \A format \in FormatSet :
                  /\ AttemptedSizes(ConverterOf(format), result.original) = out.jpg
                  /\ RecordedSizes(result, format) = out.jpg \cap out[format]
                  /\ RecordedSizes(result, format) \subseteq RecordedSizes(result, "jpg")
            /\ RecordedSizes(result, "jpg") = out.jpg
            /\ \A format \in FormatSet \cup {"jpg"} :
                  LET list == result.responsive[format]
                  IN  /\ \A i, j \in DOMAIN list : i < j => list[i].size < list[j].size
                      /\ \A i \in DOMAIN list : list[i].file \in outputDir.variants
            /\ out = AllSucceed =>
                  \A format \in FormatSet \cup {"jpg"} :
                      SizesOf(result.responsive[format]) = CONFIG.sizes

\* An image with two failed resizes, one failed WebP conversion and two
\* failed AVIF conversions.
C20_Witness ==
    /\ imagePc = "done"
    /\ \E k \in DOMAIN imageResults :
          LET result == imageResults[k]
          IN  /\ SizesOf(result.responsive.jpg) = <<320, 640, 1280>>
              /\ SizesOf(result.responsive.webp) = <<320, 1280>>
              /\ SizesOf(result.responsive.avif) = <<640>>
              /\ MkInvocation("cwebp", result.original, 640) \in invoked
              /\ MkInvocation("cwebp", result.original, 960) \notin invoked
              /\ MkInvocation("convert", result.original, 960) \in invoked

\* ------------------------------------------------------------- performance-check.js, error paths
\* The report is there but cannot be parsed or lacks a nested object.
ReportThrows == report.kind # "missing" /\ ExtractThrows(report)

\* C21: when the report exists but extraction throws, the run is one step
\* through the catch of checkPerformance: exit status 1, nothing evaluated,
\* savePerformanceHistory and checkBundleSize not called, and the report, the
\* history log, the report document and the directories left as they were.
C21_UnusableReportChangesNothing ==
    [][ReportThrows =>
          /\ files' = files
          /\ pc = "start" =>
                /\ pc' = "exited"
                /\ exits' = <<1>>
                /\ console' = <<"error-analyzing">>
                /\ histAttempts' = 0
                /\ historyData' = <<>>
                /\ bundle' = NoBundle
                /\ results' = <<>>]_vars

\* An unparsable report next to a history log of 49 entries and a build
\* directory with files: the run has exited with 1 and touched neither.
C21_Witness ==
    /\ pc = "exited"
    /\ report.kind = "malformed"
    /\ exits = <<1>>
    /\ historyFile = MkHistoryFile("list", OldLog(HistoryCap - 1))
    /\ buildDir = MkBuildDir("dir", SmallBuild)
    /\ htmlReport = NoDocument
    /\ bundle = NoBundle
    /\ histAttempts = 0

\* C22: when generatePerformanceReport fails, the failure reaches the catch
\* of checkPerformance: the run exits with 1 whether the aggregate passed or
\* failed, no complete document is written (none when the open failed, a
\* cut-off one when the write failed), and the record
\* savePerformanceHistory appended earlier in the run is still the last
\* entry of the log.
C22_ReportWriteUnguarded ==
    (pc = "exited" /\ Evaluated /\ HtmlWriteThrows(faults)) =>
        /\ exits = <<1>>
        /\ console[Len(console)] = "error-analyzing"
        /\ ~Said("report-generated")
        /\ Said(IF passed THEN "all-passed" ELSE "checks-failed")
        /\ htmlReport = HtmlAfterThrow(NoDocument, faults)
        /\ HistoryUpdated =>
              /\ historyFile.state = "list"
              /\ AppendedRecord = ToJSON(historyData[1])

C22_Witness ==
    /\ pc = "exited"
    /\ "html-write" \in faults
    /\ passed
    /\ AllWithinThresholds(report)
    /\ exits = <<1>>
    /\ HistoryUpdated
    /\ AppendedRecord = ToJSON(historyData[1])
    /\ htmlReport = PartialDocument

\* Position of the running invocation in checkPerformance.
PcRank ==
    [p \in {"start", "evaluated", "history-done", "bundle-done", "exited"} |->
        CASE p = "start" -> 0
          [] p = "evaluated" -> 1
          [] p = "history-done" -> 2
          [] p = "bundle-done" -> 3
          [] p = "exited" -> 4]

\* C23 (under SpecLive): every invocation that starts ends, on every path,
\* by calling process.exit exactly once with 0 or 1; before that no status
\* has been given; within an invocation every step moves forward, no step
\* is taken twice and savePerformanceHistory is called at most once.
C23_Terminates ==
    /\ (pc = "start") ~> (pc = "exited")
    /\ [](/\ pc = "exited" <=> Len(exits) = 1
          /\ pc # "exited" <=> exits = <<>>
          /\ \A i \in DOMAIN exits : exits[i] \in {0, 1}
          /\ histAttempts \in {0, 1}
          /\ \A i, j \in DOMAIN console : console[i] = console[j] => i = j)
    /\ [][\/ PcRank[pc'] > PcRank[pc]
          \/ pc = "exited" /\ pc' = "start"]_vars

\* A run that could not save the history and could not read the build
\* directory, and still ended with status 0.
C23_Witness ==
    /\ pc = "exited"
    /\ Said("history-warning")
    /\ Said("bundle-error")
    /\ Said("report-generated")
    /\ passed
    /\ exits = <<0>>

\* ------------------------------------------------------------- two invocations at once, properties
AllDone == \A p \in Invocations : workers[p].pc \in {"done", "dropped"}
LastWriter == writers[Len(writers)]
DocumentWritten(p) == DocumentOf(workers[p].history)
Holds(p, q) ==
    \E i \in DOMAIN workers[p].history : workers[p].history[i] = RecordValue(q)

\* C24 as stated (under SpecRace): once both invocations are through, the
\* persisted log is the one written by the last writer and has at most 50
\* entries.  Violated: two overlapping writes can leave a document that is
\* neither's.
C24_LastWriterWins ==
    (AllDone /\ writers # <<>>) =>
        /\ historyFile = MkLogFile("present", DocumentWritten(LastWriter))
        /\ Len(workers[LastWriter].history) <= 50

\* C24, amended (under SpecRace): nothing orders the read() calls and the
\* writes of the two invocations.  Every list an invocation builds has its
\* own record last and at most 50 entries.  Once an invocation has written,
\* the file holds the document of the last writer, or nothing while a
\* writer has it open, or, for good, the document of the last writer
\* followed by the tail of the longer document the other writer put there
\* after the last writer's open, a text JSON.parse throws on.  An invocation
\* that drops its record writes nothing, and when no invocation wrote the
\* file is the unusable one it was at the start.
C24_UnlockedReadModifyWrite ==
    /\ \A p \in Invocations :
          /\ workers[p].pc \in {"pushed", "opened", "done"} =>
                /\ Len(workers[p].history) \in 1..50
                /\ workers[p].history[Len(workers[p].history)] = RecordValue(p)
          /\ workers[p].pc = "dropped" =>
                /\ workers[p].history = <<>>
                /\ \A i \in DOMAIN writers : writers[i] # p
    /\ writers # <<>> =>
          /\ historyFile.state = "present"
          /\ \/ historyFile.bytes = DocumentWritten(LastWriter)
             \/ /\ historyFile.bytes = <<>>
                /\ \E p \in Invocations : workers[p].pc = "opened"
             \/ /\ Len(writers) = 2
                /\ workers[LastWriter].overwrote
                /\ Len(DocumentWritten(writers[2])) < Len(DocumentWritten(writers[1]))
                /\ historyFile.bytes =
                      DocumentWritten(writers[2])
                        \o SubSeq(DocumentWritten(writers[1]),
                                  Len(DocumentWritten(writers[2])) + 1,
                                  Len(DocumentWritten(writers[1])))
                /\ ~JSONParse(historyFile.bytes).ok
    /\ (AllDone /\ writers = <<>>) =>
          historyFile \in {OnDisk(MkHistoryFile(st, <<>>)) :
                              st \in {"malformed", "nonlist"}}

\* A torn read: invocation 1 took its first 16384 bytes from the log of 50
\* daily entries and the rest from the document invocation 2 wrote in
\* between.  The offset falls in the timestamp of the 38th entry, after
\* "2026-0" of 30 September; what follows is of 1 October: the list parsed,
\* and then written, has an entry of a month 00.
TornReadPersisted ==
    /\ AllDone
    /\ writers = <<2, 1>>
    /\ historyFile.bytes = DocumentWritten(1)
    /\ Len(workers[1].history) = 50
    /\ Holds(1, 1) /\ Holds(1, 2)
    /\ workers[1].history[37].m[1].val =
          JString(<<"2", "0", "2", "6", "-", "0", "0", "-", "0", "1", "T", "0",
                    "0", ":", "0", "0", ":", "3", "9", ".", "0", "0", "0", "Z">>)

\* A lost update: both invocations wrote, the log on disk is the second
\* writer's and the first writer's record is not in it.
C24_Witness ==
    /\ AllDone
    /\ Len(writers) = 2
    /\ historyFile.bytes = DocumentWritten(writers[2])
    /\ Holds(writers[2], writers[2])
    /\ ~Holds(writers[2], writers[1])
    /\ Len(workers[writers[2]].history) = 50

\* ------------------------------------------------------------- performance-check.js, more properties
\* The history document is there but is not a list.
HistoryUnusable == historyFile.state \in {"malformed", "nonlist"}

\* C25: when the history document is malformed JSON or JSON that is not an
\* array, savePerformanceHistory warns and writes nothing: the document and
\* every other file are as they were before the call, no step of any run
\* ever changes the document, and the run after this one drops its record
\* in the same way.
C25_UnusableHistoryLeftAlone ==
    /\ []((HistoryUnusable /\ HistoryStepDone) =>
            /\ ~HistoryUpdated
            /\ Said("history-warning")
            /\ Len(historyData) = 1
            /\ (previous.ran /\ previous.evaluated) => ~previous.updated)
    /\ [][HistoryUnusable =>
            /\ historyFile' = historyFile
            /\ pc = "evaluated" => files' = files]_vars

\* The second run on a history document that is JSON but not an array:
\* both runs evaluated, neither saved its record, the run passed.
C25_Witness ==
    /\ runs = 2
    /\ pc = "exited"
    /\ historyFile = MkHistoryFile("nonlist", <<>>)
    /\ previous.evaluated
    /\ ~previous.updated
    /\ Said("history-warning")
    /\ Len(historyData) = 1
    /\ exits = <<0>>

\* C26: for every evaluated item the three views of its outcome agree: the
\* marker printed for it is the check mark iff the status of its record is
\* 'passed' iff it does not set the aggregate to failed; so the aggregate is
\* passed iff every marker is a check mark.  Violated by a category without
\* a score or an audit without a numericValue: the cross is printed, the
\* record says 'passed' and the aggregate stays passed.
C26_ViewsAgree ==
    Evaluated =>
        /\ Len(marks) = Len(results)
        /\ \A i \in DOMAIN results :
              /\ marks[i].category = results[i].category
              /\ marks[i].mark <=> results[i].status = "passed"
        /\ passed <=> \A i \in DOMAIN marks : marks[i].mark

\* The value stored in a metric record, in hundredths like the threshold.
StoredInHundredths(rec) ==
    IF IsNumber(rec.value) THEN rec.value * 100 ELSE rec.value

\* C27: every metric record of the results is self-consistent: its status
\* is 'passed' iff its stored value is <= its stored threshold and 'failed'
\* iff its stored value is > its stored threshold.  Violated by a layout
\* shift of 0.15: the record holds the value 0, the threshold 0.1 and the
\* status 'failed'.
C27_MetricRecordConsistent ==
    Evaluated =>
        \A i \in DOMAIN results :
            results[i].type = "metric" =>
                /\ results[i].status = "passed" <=>
                      JsLE(StoredInHundredths(results[i]), results[i].threshold)
                /\ results[i].status = "failed" <=>
                      JsGT(StoredInHundredths(results[i]), results[i].threshold)

\* The files of the build directory whose name ends in .js or .css.
ScriptsAndStyles ==
    {buildDir.files[i] : i \in {j \in DOMAIN buildDir.files :
                                   buildDir.files[j].ext \in {"js", "css"}}}

RECURSIVE SumOfSizes(_)
SumOfSizes(fs) ==
    IF fs = {} THEN 0
    ELSE LET f == CHOOSE x \in fs : TRUE
         IN  f.size + SumOfSizes(fs \ {f})

\* C28: when the build directory exists and can be read, the sub-check
\* lists exactly the files found in it whose name ends in .js or .css, in
\* descending order of size; a file is marked within the limit iff its size
\* is <= 250*1024 and the total iff the sum of the listed sizes is
\* <= 3*250*1024.  The marks are printed only: the call changes neither the
\* results, nor the aggregate, nor any file, and the report document holds
\* the results, scores and metrics and nothing of the analysis.
C28_BundleAnalysis ==
    /\ [](/\ bundle.state = "analyzed" <=>
                (HistoryStepDone /\ pc # "history-done" /\ buildDir.state = "dir")
          /\ bundle.state = "analyzed" =>
                /\ {[name |-> bundle.files[i].name, size |-> bundle.files[i].size] :
                       i \in DOMAIN bundle.files}
                      = {[name |-> f.name, size |-> f.size] : f \in ScriptsAndStyles}
                /\ Len(bundle.files) = Cardinality(ScriptsAndStyles)
                /\ \A i, j \in DOMAIN bundle.files :
                      i < j => bundle.files[i].size >= bundle.files[j].size
                /\ \A i \in DOMAIN bundle.files :
                      bundle.files[i].ok <=> bundle.files[i].size <= 250 * 1024
                /\ bundle.totalSize = SumOfSizes(ScriptsAndStyles)
                /\ bundle.totalOk <=> bundle.totalSize <= 3 * 250 * 1024
          /\ (pc = "exited" /\ Said("report-generated")) =>
                htmlReport = WrittenDocument(results, scores, metrics))
    /\ [][pc = "history-done" =>
            /\ results' = results
            /\ passed' = passed
            /\ files' = files
            /\ exits' = exits]_vars

\* A build whose three bundle files are each exactly at the per-file limit
\* and whose total is exactly at the total limit.
C28_Witness ==
    /\ pc = "exited"
    /\ buildDir = MkBuildDir("dir", ExactBuild)
    /\ bundle.state = "analyzed"
    /\ [i \in DOMAIN bundle.files |-> bundle.files[i].name]
          = <<"a.css", "c.js", "static/js/b.js">>
    /\ \A i \in DOMAIN bundle.files : bundle.files[i].ok
    /\ bundle.totalSize = 3 * 250 * 1024
    /\ bundle.totalOk

\* ------------------------------------------------------------- optimize-images.js, more properties
\* The lines checkDependencies prints up to and including the first
\* missing tool.
FirstMissing ==
    CHOOSE i \in DOMAIN RequiredTools :
        /\ RequiredTools[i] \notin tools
        /\ \A j \in 1..(i - 1) : RequiredTools[j] \in tools

DependencyLines ==
    IF tools = ToolSet
    THEN [i \in DOMAIN RequiredTools |-> MkLine("found", RequiredTools[i], 0)]
    ELSE [i \in 1..FirstMissing |->
             MkLine(IF i < FirstMissing THEN "found" ELSE "not-found",
                    RequiredTools[i], 0)]

\* C29 (under SpecImages): when one of cwebp, avifenc, convert is missing,
\* or all are there and the input directory is not, the run ends with
\* process.exit(1) before any image is processed, without creating the
\* output directory and without writing the snippets file; the tools are
\* looked up first, so with a tool missing the input directory is never
\* looked at.
C29_FailsFast ==
    /\ []((tools # ToolSet \/ ~inputDir.exists) =>
            /\ imagePc \in {"start", "deps-ok", "exited"}
            /\ imagePc = "deps-ok" => tools = ToolSet
            /\ imageFiles = <<>>
            /\ imageResults = <<>>
            /\ invoked = {}
            /\ outputDir.variants = {}
            /\ outputDir.snippetsFile = NoSnippets
            /\ imagePc = "exited" =>
                  /\ imageExits = <<1>>
                  /\ imageConsole =
                        IF tools # ToolSet THEN DependencyLines
                        ELSE Append(DependencyLines, MkLine("input-not-found", "", 0)))
    /\ [][(tools # ToolSet \/ ~inputDir.exists) =>
            /\ outputDir' = outputDir
            /\ imagePc # "exited" => imagePc' = "exited" \/ imagePc' = "deps-ok"]_vars

\* avifenc is missing and so is the input directory: the run stopped at
\* avifenc, with status 1, and made no output directory.
C29_Witness ==
    /\ imagePc = "exited"
    /\ tools = {"cwebp", "convert"}
    /\ ~inputDir.exists
    /\ ~outputDir.exists
    /\ imageExits = <<1>>
    /\ imageConsole = <<MkLine("found", "cwebp", 0), MkLine("not-found", "avifenc", 0)>>

\* The files a snippet refers to: the img src and the entries of the three
\* srcSet lists.
ReferencesOf(html) ==
    {html.src}
      \cup {html.srcSet[i] : i \in DOMAIN html.srcSet}
      \cup {html.webp[i] : i \in DOMAIN html.webp}
      \cup {html.avif[i] : i \in DOMAIN html.avif}

\* C30 (under SpecImages): every file a saved snippet refers to is a
\* variant that was generated in the output directory.  Violated when the
\* resize to 640 fails: the img src is baseName-640w.jpg all the same.
C30_SnippetsNameGeneratedFiles ==
    outputDir.snippetsFile.state = "written" =>
        \A i \in DOMAIN outputDir.snippetsFile.snippets :
            ReferencesOf(outputDir.snippetsFile.snippets[i].html)
                \subseteq outputDir.variants

====
